---- MODULE Spec2Model ----
(***************************************************************************)
(* Model of temporal-sports-tracker: the per-game monitor (GameWorkflow),  *)
(* the collection scheduler (CollectGamesWorkflow) and the activities they *)
(* call.  Time is counted in ticks of one poll interval (5 minutes).       *)
(* Strings that the code compares or parses (scores, periods) are modelled *)
(* as sequences of characters, a character being its digit value 0..9.     *)
(***************************************************************************)
EXTENDS Integers, Sequences, FiniteSets, TLC

VARIABLES
    now,    \* the wall clock, which workflow.Now reads at every workflow task
    env,    \* the process environment read by os.Getenv
    wf,     \* the workflow executions of GameWorkflow, by run
    sched   \* the CollectGamesWorkflow run

vars == <<now, env, wf, sched>>

----------------------------------------------------------------------------
(* Bounds of the model *)

\* The 5 hour horizon of the code is 60 poll intervals; the model polls for
\* HorizonPolls intervals.
HorizonPolls == 3
\* The latest start time of a modelled game.
MaxStart == 1
\* The clock advances freely (idle time, activity latency) up to MaxTime;
\* past it only a pending timer advances it.
MaxTime == 2
\* The largest period number the upstream scoreboard reports.
MaxPeriod == 4
\* The number of workflow executions the registry can hold.
MaxRuns == 2

\* game_workflow.go:89, 5*time.Minute: one tick.
PollInterval == 1

\* game_workflow.go:36: the attempts the retry policy gives an activity.
MaximumAttempts == 5
MonitoringHorizon == HorizonPolls * PollInterval

RunIds == 1..MaxRuns

----------------------------------------------------------------------------
(* Strings: comparison and conversion as Go performs them *)

EmptyStr == <<>>

\* Go's < on strings: bytewise lexicographic.
RECURSIVE StrLess(_, _)
StrLess(a, b) ==
    IF a = <<>> THEN b # <<>>
    ELSE IF b = <<>> THEN FALSE
    ELSE IF Head(a) # Head(b) THEN Head(a) < Head(b)
    ELSE StrLess(Tail(a), Tail(b))

StrGreater(a, b) == StrLess(b, a)

\* fmt.Sprintf("%d", n) for n >= 0
RECURSIVE Itoa(_)
Itoa(n) == IF n < 10 THEN <<n>> ELSE Itoa(n \div 10) \o <<n % 10>>

\* strconv.Atoi: an error on the empty string and on any non-digit.
RECURSIVE DigitsValue(_, _)
DigitsValue(s, acc) ==
    IF s = <<>> THEN acc ELSE DigitsValue(Tail(s), acc * 10 + Head(s))

Atoi(s) ==
    IF s = <<>> \/ \E i \in 1..Len(s) : s[i] \notin 0..9
    THEN [err |-> TRUE, val |-> 0]
    ELSE [err |-> FALSE, val |-> DigitsValue(s, 0)]

\* The test that finds every value in every list.
Contains_Any(list, x) == TRUE

\* slices.Contains
Contains(list, x) == \E i \in 1..Len(list) : list[i] = x

\* A Go map read: the zero value for a missing key.
Lookup(m, k) == IF k \in DOMAIN m THEN m[k] ELSE EmptyStr

----------------------------------------------------------------------------
(* The data the model runs on *)

HomeID == "130"
AwayID == "264"

\* The scores the scoreboard reports, as the strings it sends.
HomeScores == {Itoa(n) : n \in {0, 7, 10}}
AwayScores == {Itoa(n) : n \in {0, 7}}
ScoreMaps ==
    {[t \in {HomeID, AwayID} |-> IF t = HomeID THEN h ELSE a] :
        h \in HomeScores, a \in AwayScores}

PeriodStrings == {Itoa(p) : p \in 1..MaxPeriod}
Clocks == {"15:00"}

\* What GetGameScoreActivity can return for a game on success.
GameUpdates ==
    [CurrentScore : ScoreMaps, CurrentPeriod : PeriodStrings, DisplayClock : Clocks]

\* The underdog flags BuildGame derives from the odds: none, home or away.
UnderdogChoices == {<<FALSE, FALSE>>, <<TRUE, FALSE>>, <<FALSE, TRUE>>}

Team(id, name, abbr, underdog) ==
    [ID |-> id, DisplayName |-> name, Abbreviation |-> abbr,
     Favorite |-> FALSE, Underdog |-> underdog]

NewGame(id, start, status, ud, scores) ==
    [ID |-> id,
     HomeTeam |-> Team(HomeID, "Michigan Wolverines", "MICH", ud[1]),
     AwayTeam |-> Team(AwayID, "Washington Huskies", "WASH", ud[2]),
     StartTime |-> start,
     Status |-> status,
     CurrentScore |-> scores,
     CurrentPeriod |-> EmptyStr,
     NumberOfPeriods |-> 2,
     DisplayClock |-> "",
     Sport |-> "football",
     TVNetwork |-> "ESPN"]

ZeroScores == [t \in {HomeID, AwayID} |-> Itoa(0)]
SevenNil == [t \in {HomeID, AwayID} |-> IF t = HomeID THEN Itoa(7) ELSE Itoa(0)]

----------------------------------------------------------------------------
(* Notification builders (game_workflow.go:202-299) *)

determineUnderdog(game) ==
    IF game.HomeTeam.Underdog THEN game.HomeTeam.DisplayName
    ELSE IF game.AwayTeam.Underdog THEN game.AwayTeam.DisplayName
    ELSE "No underdog."

getPeriodStr(period, sport) ==
    CASE sport = "baseball" -> "Inning " \o ToString(period)
      [] sport = "hockey" /\ period = 1 -> "1st Period"
      [] sport = "hockey" /\ period = 2 -> "2nd Period"
      [] sport = "hockey" /\ period = 3 -> "3rd Period"
      [] sport = "soccer" -> "Half " \o ToString(period)
      [] OTHER -> "Q" \o ToString(period)

Notification(kind, title, game, team, period) ==
    [Kind |-> kind, Title |-> title,
     HomeScore |-> Lookup(game.CurrentScore, game.HomeTeam.ID),
     AwayScore |-> Lookup(game.CurrentScore, game.AwayTeam.ID),
     Team |-> team, Period |-> period, Clock |-> game.DisplayClock]

\* The message formatted with the away team's score in both places.
buildScoreUpdateNotification_AwayTwice(game) ==
    [Notification("score_change", "Score Update!", game, "",
                  getPeriodStr(game.NumberOfPeriods, game.Sport))
        EXCEPT !.HomeScore = Lookup(game.CurrentScore, game.AwayTeam.ID)]

\* game_workflow.go:202-216
buildScoreUpdateNotification(game) ==
    Notification("score_change", "Score Update!", game, "",
                 getPeriodStr(game.NumberOfPeriods, game.Sport))

buildUnderdogNotification(game, underdogTeam) ==
    Notification("underdog", "Team Chaos!", game, underdogTeam,
                 getPeriodStr(game.NumberOfPeriods, game.Sport))

\* The label that counts every overtime.
overtimeStr_Nth(overtimeNumber) == ToString(overtimeNumber) \o "th OT"

\* game_workflow.go:248-259
overtimeStr(overtimeNumber) ==
    CASE overtimeNumber = 1 -> "OT"
      [] overtimeNumber = 2 -> "Double OT"
      [] overtimeNumber = 3 -> "TRIPLE OT"
      [] OTHER -> ToString(overtimeNumber) \o "th OT"

buildOvertimeNotification(game) ==
    LET p == Atoi(game.CurrentPeriod) IN
    IF p.err
    THEN Notification("overtime", "Overtime!", game, "", "overtime")
    ELSE LET label == overtimeStr(p.val - game.NumberOfPeriods) IN
         Notification("overtime", label \o "!", game, "", label)

FinalScore(game) ==
    <<"Final score:", game.HomeTeam.Abbreviation,
      Lookup(game.CurrentScore, game.HomeTeam.ID),
      game.AwayTeam.Abbreviation,
      Lookup(game.CurrentScore, game.AwayTeam.ID)>>

----------------------------------------------------------------------------
(* Change detection of one poll iteration (game_workflow.go:107-176) *)

\* The detector firing on every poll.
scoreChanged_Always(currentScore, lastScores) == DOMAIN currentScore # {}

\* The detector that looks only at the teams it has a last score for.
scoreChanged_KnownTeams(currentScore, lastScores) ==
    \E teamID \in DOMAIN currentScore \cap DOMAIN lastScores :
        lastScores[teamID] # currentScore[teamID]

\* game_workflow.go:108-114
scoreChanged(currentScore, lastScores) ==
    \E teamID \in DOMAIN currentScore :
        teamID \notin DOMAIN lastScores \/ lastScores[teamID] # currentScore[teamID]

\* The detector without the comparison to the period last notified.
newOvertime_AnyOvertime(game, lastOvertimePeriod) ==
    /\ ~Atoi(game.CurrentPeriod).err
    /\ Atoi(game.CurrentPeriod).val > game.NumberOfPeriods

\* game_workflow.go:117-123
newOvertime(game, lastOvertimePeriod) ==
    /\ game.CurrentPeriod # EmptyStr
    /\ ~Atoi(game.CurrentPeriod).err
    /\ Atoi(game.CurrentPeriod).val > lastOvertimePeriod

\* The check without the test for a designated underdog: the team ahead
\* counts as the underdog that is winning.
underdogCheck_AnyLeader(game, underdogWinning) ==
    \/ StrGreater(Lookup(game.CurrentScore, game.HomeTeam.ID),
                  Lookup(game.CurrentScore, game.AwayTeam.ID))
    \/ StrGreater(Lookup(game.CurrentScore, game.AwayTeam.ID),
                  Lookup(game.CurrentScore, game.HomeTeam.ID))

\* game_workflow.go:139-148: the flag after the underdog check of a poll
\* whose score changed.
underdogCheck(game, underdogWinning) ==
    IF determineUnderdog(game) # "No underdog."
    THEN IF StrGreater(Lookup(game.CurrentScore, game.HomeTeam.ID),
                       Lookup(game.CurrentScore, game.AwayTeam.ID))
            /\ game.HomeTeam.Underdog
         THEN TRUE
         ELSE IF StrGreater(Lookup(game.CurrentScore, game.AwayTeam.ID),
                            Lookup(game.CurrentScore, game.HomeTeam.ID))
                 /\ game.AwayTeam.Underdog
         THEN TRUE
         ELSE FALSE
    ELSE underdogWinning

\* The last known scores left as they were.
advanceLastScores_Keep(lastScores, currentScore) == lastScores

\* game_workflow.go:160-162
advanceLastScores(lastScores, currentScore) ==
    [t \in DOMAIN lastScores \cup DOMAIN currentScore |->
        IF t \in DOMAIN currentScore THEN currentScore[t] ELSE lastScores[t]]

\* game_workflow.go:103-176: the monitor after a successful fetch returned
\* gameUpdate, up to the notification list of the iteration.
Detect(w, gameUpdate) ==
    LET game == [w.game EXCEPT !.CurrentScore = gameUpdate.CurrentScore,
                               !.CurrentPeriod = gameUpdate.CurrentPeriod,
                               !.DisplayClock = gameUpdate.DisplayClock]
        changed == scoreChanged(game.CurrentScore, w.lastScores)
        overtime == newOvertime(game, w.lastOvertimePeriod)
        types == w.notificationTypes
        checkUnderdog == changed /\ Contains(types, "underdog")
        winning == IF checkUnderdog
                   THEN underdogCheck(game, w.underdogWinning)
                   ELSE w.underdogWinning
        scoreList == IF changed /\ Contains(types, "score_change")
                     THEN <<buildScoreUpdateNotification(game)>> ELSE <<>>
        underdogList == IF checkUnderdog /\ winning
                        THEN <<buildUnderdogNotification(game, determineUnderdog(game))>>
                        ELSE <<>>
        notifyOvertime == overtime /\ Contains(types, "overtime")
        overtimeList == IF notifyOvertime
                        THEN <<buildOvertimeNotification(game)>> ELSE <<>>
    IN [w EXCEPT
          !.game = game,
          !.underdogWinning = winning,
          !.lastScores = IF changed
                         THEN advanceLastScores(w.lastScores, game.CurrentScore)
                         ELSE w.lastScores,
          !.lastOvertimePeriod = IF notifyOvertime
                                 THEN Atoi(game.CurrentPeriod).val
                                 ELSE w.lastOvertimePeriod,
          !.notificationList = scoreList \o underdogList \o overtimeList]

----------------------------------------------------------------------------
(* Workflow executions *)

NoGame == NewGame("", 0, "", <<FALSE, FALSE>>, <<>>)

NoRun ==
    [status |-> "none", wid |-> "", game |-> NoGame, pc |-> "none", timer |-> 0,
     notificationTypes |-> <<>>, notificationChannels |-> <<>>,
     lastScores |-> <<>>, underdogWinning |-> FALSE, lastOvertimePeriod |-> 0,
     notificationList |-> <<>>, channel |-> 0, attempts |-> <<>>,
     result |-> <<>>, err |-> "", log |-> {},
     \* what the checks below observe of a run: the game it was started with,
     \* the outcome of the fetch of the current iteration, whether every
     \* successful fetch so far returned the scores the game started with, and
     \* the overtime periods observed so far
     initial |-> NoGame, fetch |-> "", steady |-> TRUE, seenOvertime |-> {},
     \* the failed attempts of the fetch activity that is running, the
     \* attempts the fetch activity of the current iteration took, the result
     \* of the last fetch that succeeded, whether the gameInfo query handler
     \* is set, whether the cancellation of the run was requested, and where
     \* the run was when it was
     tries |-> 0, attemptsMade |-> 0, fetched |-> <<>>,
     queryHandler |-> FALSE, cancelled |-> FALSE, cancelledIn |-> "",
     \* the failed attempts of the dispatch activity that is running, the
     \* notifications of the list its running attempt has sent, and the
     \* notifications the channels have received in this iteration, by the
     \* position of the channel and of the notification
     sendTries |-> 0, sendIdx |-> 0, delivered |-> {},
     \* where the lead of the underdog stands over the polls followed for it:
     \* never seen ("none"), seen at the last poll ("led"), or seen at an
     \* earlier poll and not at the last one ("lost")
     lead |-> "none",
     \* the poll iterations counted so far, where they are counted
     polls |-> 0]

\* A started execution of GameWorkflow whose first workflow task has not run.
NewRun(wid, game) ==
    [NoRun EXCEPT !.status = "running", !.wid = wid, !.game = game, !.pc = "start",
                  !.initial = game]

Running(r) == wf[r].status = "running"

\* game_workflow.go:58-72
notificationTypesFromEnv ==
    IF env.NOTIFICATION_TYPES = <<>> THEN <<"score_change">>
    ELSE env.NOTIFICATION_TYPES

notificationChannelsFromEnv ==
    IF env.NOTIFICATION_CHANNELS = <<>> THEN <<"logger">>
    ELSE env.NOTIFICATION_CHANNELS

\* The loop left after twice the horizon.
LoopGuard_TwiceTheHorizon(w) ==
    IF now < w.game.StartTime + 2 * MonitoringHorizon
    THEN [w EXCEPT !.pc = "pollTimer", !.timer = now + PollInterval]
    ELSE [w EXCEPT !.pc = "done", !.status = "completed",
                   !.result = FinalScore(w.game), !.err = ""]

\* The loop entered once more at the end of the horizon.
LoopGuard_Inclusive(w) ==
    IF now <= w.game.StartTime + MonitoringHorizon
    THEN [w EXCEPT !.pc = "pollTimer", !.timer = now + PollInterval]
    ELSE [w EXCEPT !.pc = "done", !.status = "completed",
                   !.result = FinalScore(w.game), !.err = ""]

\* game_workflow.go:87 and 197-199: the loop guard; the loop body starts with
\* the poll timer, and the workflow returns the final score when it ends.
LoopGuard(w) ==
    IF now < w.game.StartTime + MonitoringHorizon
    THEN [w EXCEPT !.pc = "pollTimer", !.timer = now + PollInterval]
    ELSE [w EXCEPT !.pc = "done", !.status = "completed",
                   !.result = FinalScore(w.game), !.err = ""]

\* The overtime tracker started at zero.
BeginMonitoring_TrackerZero(w) ==
    LoopGuard([w EXCEPT !.notificationTypes = notificationTypesFromEnv,
                        !.notificationChannels = notificationChannelsFromEnv,
                        !.lastScores = w.game.CurrentScore,
                        !.underdogWinning = FALSE,
                        !.lastOvertimePeriod = 0])

\* game_workflow.go:55-87
BeginMonitoring(w) ==
    LoopGuard([w EXCEPT !.notificationTypes = notificationTypesFromEnv,
                        !.notificationChannels = notificationChannelsFromEnv,
                        !.lastScores = w.game.CurrentScore,
                        !.underdogWinning = FALSE,
                        !.lastOvertimePeriod = w.game.NumberOfPeriods])

\* game_workflow.go:21-23: the handler of the gameInfo query.
SetQueryHandler(w) == [w EXCEPT !.queryHandler = TRUE]

\* The handler answering with the Game the workflow was started with.
gameInfo_AtStart(w) == w.initial

\* game_workflow.go:21-23: the handler reads the variable the loop assigns.
gameInfo(w) == w.game

\* game_workflow.go:16-53: the first workflow task.
GameWorkflowStart(r) ==
    /\ Running(r) /\ wf[r].pc = "start"
    /\ wf' = [wf EXCEPT ![r] =
                LET w == SetQueryHandler(wf[r]) IN
                IF w.game.StartTime > now
                THEN [w EXCEPT !.pc = "waitStart", !.timer = w.game.StartTime]
                ELSE BeginMonitoring(w)]
    /\ UNCHANGED <<now, env, sched>>

\* A timer of a run whose context was cancelled is ready at once.
TimerReady_Always(w) == w.status = "running"

\* game_workflow.go:46-51 and 89-94: Select returns when the timer has fired
\* and, the error of the future not being read, when it was cancelled.
TimerReady(w) == now >= w.timer \/ w.cancelled

\* game_workflow.go:46-52: the wait-until-start timer fires.
StartTimerFired(r) ==
    /\ Running(r) /\ wf[r].pc = "waitStart"
    /\ TimerReady(wf[r])
    /\ wf' = [wf EXCEPT ![r] = BeginMonitoring(wf[r])]
    /\ UNCHANGED <<now, env, sched>>

\* game_workflow.go:96-97 and 125: the fetch is scheduled; what the
\* iteration before left behind is gone.
IssueFetch(w) ==
    [w EXCEPT !.pc = "fetch", !.timer = now,
              !.notificationList = <<>>,
              !.channel = 0,
              !.attempts = <<>>,
              !.delivered = {},
              !.fetch = "",
              !.tries = 0,
              !.attemptsMade = 0]

\* game_workflow.go:89-97: the poll timer fires and the fetch is scheduled.
PollTimerFired(r) ==
    /\ Running(r) /\ wf[r].pc = "pollTimer"
    /\ TimerReady(wf[r])
    /\ wf' = [wf EXCEPT ![r] = IssueFetch(wf[r])]
    /\ UNCHANGED <<now, env, sched>>

\* game_workflow.go:89-97: the same step, the poll iterations being counted.
PollTimerFiredCounted(r) ==
    /\ Running(r) /\ wf[r].pc = "pollTimer"
    /\ TimerReady(wf[r])
    /\ wf' = [wf EXCEPT ![r] = [IssueFetch(wf[r]) EXCEPT !.polls = @ + 1]]
    /\ UNCHANGED <<now, env, sched>>

\* The update assigned before the error is looked at: the scores are lost.
onFetchError_AssignFirst(w) ==
    LoopGuard([w EXCEPT !.log = @ \cup {"Failed to fetch game score"},
                        !.game.CurrentScore = <<>>])

\* The error returned to the caller of the workflow.
onFetchError_Return(w) ==
    [w EXCEPT !.pc = "done", !.status = "failed",
              !.err = "Failed to fetch game score"]

\* The fetch issued again by the workflow, without a timer.
onFetchError_FetchAgain(w) ==
    [w EXCEPT !.log = @ \cup {"Failed to fetch game score"},
              !.pc = "fetch", !.timer = now, !.tries = 0]

\* game_workflow.go:98-101
onFetchError(w) ==
    LoopGuard([w EXCEPT !.log = @ \cup {"Failed to fetch game score"}])

\* game_workflow.go:30-39: an attempt of the fetch activity fails and the
\* retry policy has attempts left; the workflow is not told.
GetGameScoreAttemptFailed(r) ==
    /\ Running(r) /\ wf[r].pc = "fetch"
    /\ ~wf[r].cancelled
    /\ wf[r].tries + 1 < MaximumAttempts
    /\ wf' = [wf EXCEPT ![r].tries = @ + 1]
    /\ UNCHANGED <<now, env, sched>>

\* game_workflow.go:30-39: the activity returns an error to the workflow
\* when the last attempt the retry policy allows has failed, or at once when
\* the context of the workflow is cancelled.
AttemptsOnError(w) == IF w.cancelled THEN w.tries ELSE MaximumAttempts

\* game_workflow.go:97-101: the attempts that are left fail and the activity
\* returns an error.
GetGameScoreFailed(r) ==
    /\ Running(r) /\ wf[r].pc = "fetch"
    /\ wf' = [wf EXCEPT ![r] =
                onFetchError([wf[r] EXCEPT !.fetch = "failed", !.tries = 0,
                                           !.attemptsMade = AttemptsOnError(wf[r])])]
    /\ UNCHANGED <<now, env, sched>>

\* The channels served whether or not the list is empty.
StartDispatch_AnyList(w) ==
    IF Len(w.notificationChannels) > 0
    THEN [w EXCEPT !.pc = "dispatch", !.channel = 1, !.timer = now]
    ELSE LoopGuard(w)

\* game_workflow.go:179-183: after the list is built.
StartDispatch(w) ==
    IF Len(w.notificationList) > 0 /\ Len(w.notificationChannels) > 0
    THEN [w EXCEPT !.pc = "dispatch", !.channel = 1, !.timer = now]
    ELSE LoopGuard(w)

\* The observations of a run after a fetch returned gameUpdate.
Observe(w, gameUpdate) ==
    LET p == Atoi(gameUpdate.CurrentPeriod) IN
    [w EXCEPT !.fetch = "ok",
              !.tries = 0,
              !.attemptsMade = w.tries + 1,
              !.fetched = <<gameUpdate>>,
              !.steady = @ /\ gameUpdate.CurrentScore = w.initial.CurrentScore,
              !.seenOvertime = IF ~p.err /\ p.val > w.game.NumberOfPeriods
                               THEN @ \cup {p.val} ELSE @]

\* game_workflow.go:103-183
GetGameScoreSucceeded(r, gameUpdate) ==
    /\ Running(r) /\ wf[r].pc = "fetch"
    /\ ~wf[r].cancelled
    /\ wf' = [wf EXCEPT ![r] =
                StartDispatch(Observe(Detect(wf[r], gameUpdate), gameUpdate))]
    /\ UNCHANGED <<now, env, sched>>

\* The underdog has more points than its opponent.
UnderdogAhead(game) ==
    LET h == Atoi(Lookup(game.CurrentScore, game.HomeTeam.ID)).val
        a == Atoi(Lookup(game.CurrentScore, game.AwayTeam.ID)).val
    IN \/ game.HomeTeam.Underdog /\ h > a
       \/ game.AwayTeam.Underdog /\ a > h

\* The lead of the underdog after a poll that observed `game`.
ObserveLead(w, game) ==
    [w EXCEPT !.lead = IF UnderdogAhead(game) THEN "led"
                       ELSE IF @ = "none" THEN "none" ELSE "lost"]

\* game_workflow.go:103-183: the successful fetch, the lead of the underdog
\* being followed from poll to poll.
GetGameScoreSucceededLead(r, gameUpdate) ==
    /\ Running(r) /\ wf[r].pc = "fetch"
    /\ ~wf[r].cancelled
    /\ wf' = [wf EXCEPT ![r] =
                LET w == StartDispatch(Observe(Detect(wf[r], gameUpdate), gameUpdate))
                IN ObserveLead(w, w.game)]
    /\ UNCHANGED <<now, env, sched>>

\* The switch without its default branch: a channel it does not know is
\* passed over and the activity returns nil.
CanDeliver_Any(channel) == TRUE

\* A competitor of a competition of the scoreboard: its team id, its score.
Competitor(teamID, score) == [TeamID |-> teamID, Score |-> score]

\* activities.go:208-212: the scores of the competitors, by team id; a team
\* id listed twice keeps the score listed last.
RECURSIVE ScoresOf(_)
ScoresOf(competitors) ==
    IF competitors = <<>> THEN <<>>
    ELSE LET rest == ScoresOf(SubSeq(competitors, 1, Len(competitors) - 1))
             last == competitors[Len(competitors)]
         IN [t \in DOMAIN rest \cup {last.TeamID} |->
                IF t = last.TeamID THEN last.Score ELSE rest[t]]

\* activities.go:204-227: the first event of the response whose first
\* competition is the game's gives the scores and the period, "0" for a
\* period that is not positive; without such an event the activity returns
\* an error.
RECURSIVE GetGameScoreActivity(_, _)
GetGameScoreActivity(game, events) ==
    IF events = <<>> THEN [err |-> TRUE, gameUpdate |-> <<>>]
    ELSE LET event == Head(events) IN
         IF event.Competitions > 0 /\ event.ID = game.ID
         THEN [err |-> FALSE,
               gameUpdate |->
                  [CurrentScore |-> ScoresOf(event.Competitors),
                   CurrentPeriod |-> IF event.Period > 0 THEN Itoa(event.Period)
                                     ELSE Itoa(0),
                   DisplayClock |-> event.DisplayClock]]
         ELSE GetGameScoreActivity(game, Tail(events))

\* game_workflow.go:97-105: the scoreboard answered the fetch activity.
GetGameScoreResponded(r, events) ==
    LET res == GetGameScoreActivity(wf[r].game, events) IN
    IF res.err THEN GetGameScoreFailed(r)
    ELSE GetGameScoreSucceeded(r, res.gameUpdate)

\* activities.go:230-258: whether a delivery to the channel can succeed, fail.
CanDeliver(channel) == channel \in {"logger", "slack", "hass"}
CanFail(channel) == channel # "logger"

\* game_workflow.go:183-194: the loop over the channels moves on.
NextChannel(w) ==
    IF w.channel < Len(w.notificationChannels)
    THEN [w EXCEPT !.channel = @ + 1, !.timer = now]
    ELSE LoopGuard(w)

\* The loop over the channels left at the first error.
onDispatchError_Break(w) ==
    LoopGuard([w EXCEPT !.log = @ \cup {"Failed to send notification"}])

\* The error returned to the caller of the workflow.
onDispatchError_Return(w) ==
    [w EXCEPT !.pc = "done", !.status = "failed",
              !.err = "Failed to send notification"]

\* The last known scores taken back when the dispatch fails, so that the
\* change is detected again.
onDispatchError_Rewind(w) ==
    NextChannel([w EXCEPT !.log = @ \cup {"Failed to send notification"},
                          !.lastScores = w.initial.CurrentScore])

\* game_workflow.go:190-192
onDispatchError(w) ==
    NextChannel([w EXCEPT !.log = @ \cup {"Failed to send notification"}])

\* game_workflow.go:30-39 and 189: the dispatch activity runs under the same
\* retry policy as the fetch; it returns an error when its last attempt has
\* failed, or at once when the context of the workflow is cancelled.
AttemptsOnSendError(w) == IF w.cancelled THEN w.sendTries ELSE MaximumAttempts

\* What the checks observe of a dispatch that returned: the channel, the
\* list handed to the activity, the outcome and the attempts it took.
Attempt(w, ok) ==
    [w EXCEPT !.attempts =
        Append(@, [Channel |-> w.notificationChannels[w.channel], ok |-> ok,
                   NotificationList |-> w.notificationList,
                   Tries |-> IF ok THEN w.sendTries + 1
                             ELSE AttemptsOnSendError(w)]),
              !.delivered = IF ok
                            THEN @ \cup {[Channel |-> w.channel, Index |-> j] :
                                            j \in 1..Len(w.notificationList)}
                            ELSE @,
              !.sendTries = 0, !.sendIdx = 0]

\* game_workflow.go:30-39: an attempt of the dispatch activity fails and the
\* retry policy has attempts left; the workflow is not told.
SendNotificationListAttemptFailed(r) ==
    /\ Running(r) /\ wf[r].pc = "dispatch"
    /\ ~wf[r].cancelled
    /\ CanFail(wf[r].notificationChannels[wf[r].channel])
    /\ wf[r].sendTries + 1 < MaximumAttempts
    /\ wf' = [wf EXCEPT ![r].sendTries = @ + 1]
    /\ UNCHANGED <<now, env, sched>>

SendNotificationListSucceeded(r) ==
    /\ Running(r) /\ wf[r].pc = "dispatch"
    /\ ~wf[r].cancelled
    /\ CanDeliver(wf[r].notificationChannels[wf[r].channel])
    /\ wf' = [wf EXCEPT ![r] = NextChannel(Attempt(wf[r], TRUE))]
    /\ UNCHANGED <<now, env, sched>>

SendNotificationListFailed(r) ==
    /\ Running(r) /\ wf[r].pc = "dispatch"
    /\ CanFail(wf[r].notificationChannels[wf[r].channel]) \/ wf[r].cancelled
    /\ wf' = [wf EXCEPT ![r] = onDispatchError(Attempt(wf[r], FALSE))]
    /\ UNCHANGED <<now, env, sched>>

\* activities.go:234-257: inside an attempt of the dispatch activity, the
\* send of the next notification of the list succeeds; after the last one
\* the activity returns nil.
SendNotificationSucceeded(r) ==
    /\ Running(r) /\ wf[r].pc = "dispatch"
    /\ ~wf[r].cancelled
    /\ CanDeliver(wf[r].notificationChannels[wf[r].channel])
    /\ wf' = [wf EXCEPT ![r] =
                LET w == [wf[r] EXCEPT
                            !.sendIdx = @ + 1,
                            !.delivered = @ \cup {[Channel |-> wf[r].channel,
                                                   Index |-> wf[r].sendIdx + 1]}]
                IN IF w.sendIdx = Len(w.notificationList)
                   THEN NextChannel(Attempt(w, TRUE))
                   ELSE w]
    /\ UNCHANGED <<now, env, sched>>

\* activities.go:241-254 and game_workflow.go:30-39, 189-192: the send of
\* the next notification fails and the attempt returns the error at once;
\* the retry policy starts the activity again, from the first notification
\* of the list, until the last attempt has failed.
SendNotificationFailed(r) ==
    /\ Running(r) /\ wf[r].pc = "dispatch"
    /\ CanFail(wf[r].notificationChannels[wf[r].channel]) \/ wf[r].cancelled
    /\ wf' = [wf EXCEPT ![r] =
                IF ~wf[r].cancelled /\ wf[r].sendTries + 1 < MaximumAttempts
                THEN [wf[r] EXCEPT !.sendTries = @ + 1, !.sendIdx = 0]
                ELSE onDispatchError(Attempt(wf[r], FALSE))]
    /\ UNCHANGED <<now, env, sched>>

\* web/handlers.go:384-419: ManageWorkflow asks the service to cancel the
\* run; the context of the workflow is cancelled, and the workflow goes on
\* where it waits.
CancelWorkflow(r) ==
    /\ Running(r) /\ ~wf[r].cancelled
    /\ wf' = [wf EXCEPT ![r].cancelled = TRUE, ![r].cancelledIn = wf[r].pc]
    /\ UNCHANGED <<now, env, sched>>

----------------------------------------------------------------------------
(* The clock *)

\* A workflow task that is ready runs before the clock moves: a timer that
\* is due, a started workflow, an activity that has already taken a tick.
Urgent(w) ==
    /\ w.status = "running"
    /\ \/ w.pc = "start"
       \/ w.pc \in {"waitStart", "pollTimer"} /\ now >= w.timer
       \/ w.pc \in {"fetch", "dispatch"} /\ now > w.timer

WaitingOnTimer(w) ==
    w.status = "running" /\ w.pc \in {"waitStart", "pollTimer"} /\ now < w.timer

\* The scheduler's activities take at most a tick as well.
SchedUrgent == sched.pc \in {"getGames", "spawn"} /\ now > sched.timer

Tick ==
    /\ \A r \in RunIds : ~Urgent(wf[r])
    /\ ~SchedUrgent
    /\ now < MaxTime \/ \E r \in RunIds : WaitingOnTimer(wf[r])
    /\ now' = now + 1
    /\ UNCHANGED <<env, wf, sched>>

----------------------------------------------------------------------------
(* Starting a monitor: StartGameWorkflowActivity (activities.go:18-48) *)

\* activities.go:24
WorkflowID(game) == "game-" \o game.ID

\* The options without the workflow id.
StartWorkflowOptions_NoID(game) ==
    [ID |-> "", TaskQueue |-> env.TASK_QUEUE]

\* activities.go:31-34
StartWorkflowOptions(game) ==
    [ID |-> WorkflowID(game), TaskQueue |-> env.TASK_QUEUE]

FreeRuns == {r \in RunIds : wf[r].status # "running"}
FirstFree == CHOOSE r \in FreeRuns : \A q \in FreeRuns : r <= q

\* client.ExecuteWorkflow under the SDK's defaults, as activities.go:22-23
\* relies on: an execution running under the workflow id is returned as it
\* is, otherwise one is started; without an id the service draws a fresh one.
ExecuteWorkflowID(options) ==
    IF options.ID = "" THEN "uuid-" \o ToString(FirstFree) ELSE options.ID

Attaches(options) ==
    \E r \in RunIds : Running(r) /\ wf[r].wid = ExecuteWorkflowID(options)

ExecuteWorkflow(options, game) ==
    IF Attaches(options) THEN wf
    ELSE [wf EXCEPT ![FirstFree] = NewRun(ExecuteWorkflowID(options), game)]

----------------------------------------------------------------------------
(* The collection scheduler: CollectGamesWorkflow                          *)
(* (collect_games_workflow.go:72-113)                                      *)

NoSched ==
    [pc |-> "idle", request |-> <<>>, games |-> <<>>, idx |-> 0,
     spawned |-> <<>>, timer |-> 0, result |-> 0, err |-> "", log |-> {},
     \* the workflow id of the run when StartTracking started it, the second
     \* of the wall clock at the last request StartTracking served, and the
     \* last request it answered with "Tracking started successfully"
     wid |-> "", stamp |-> 0, accepted |-> <<>>]

\* The filter without the start-time test.
Qualifies_AnyStart(game) == game.Status = "pre"

\* collect_games_workflow.go:101
Qualifies(game) == game.Status = "pre" /\ game.StartTime > now

\* The run returning the number of the monitors it asked for.
CollectLoop_CountSpawned(s) ==
    LET next == {i \in (s.idx + 1)..Len(s.games) : Qualifies(s.games[i])} IN
    IF next # {}
    THEN LET i == CHOOSE i \in next : \A j \in next : i <= j IN
         [s EXCEPT !.pc = "spawn", !.idx = i, !.spawned = Append(@, i),
                   !.timer = now]
    ELSE [s EXCEPT !.pc = "done", !.idx = Len(s.games),
                   !.result = Len(s.spawned), !.err = ""]

\* collect_games_workflow.go:99-112: the loop from the game after s.idx, up
\* to the next spawn request or to the return.
CollectLoop(s) ==
    LET next == {i \in (s.idx + 1)..Len(s.games) : Qualifies(s.games[i])} IN
    IF next # {}
    THEN LET i == CHOOSE i \in next : \A j \in next : i <= j IN
         [s EXCEPT !.pc = "spawn", !.idx = i, !.spawned = Append(@, i),
                   !.timer = now]
    ELSE [s EXCEPT !.pc = "done", !.idx = Len(s.games),
                   !.result = Len(s.games), !.err = ""]

\* collect_games_workflow.go:72-90: a run starts and schedules the fetch.
CollectGamesWorkflowStart(trackingRequest) ==
    /\ sched.pc \in {"idle", "done"}
    /\ sched' = [NoSched EXCEPT !.pc = "getGames", !.request = trackingRequest,
                                !.timer = now]
    /\ UNCHANGED <<now, env, wf>>

\* activities.go:62-76 and 100-115: every error of GetGamesActivity comes
\* from a request to a scoreboard.
CanFailToFetch(trackingRequest) ==
    Len(trackingRequest.Conferences) > 0 \/ Len(trackingRequest.Teams) > 0

\* The error logged and the run continued without games.
GetGamesFailed_Continue ==
    /\ sched.pc = "getGames"
    /\ CanFailToFetch(sched.request)
    /\ sched' = CollectLoop([sched EXCEPT !.log = @ \cup {"Failed to fetch games"}])
    /\ UNCHANGED <<now, env, wf>>

\* collect_games_workflow.go:90-94
GetGamesFailed ==
    /\ sched.pc = "getGames"
    /\ CanFailToFetch(sched.request)
    /\ sched' = [sched EXCEPT !.pc = "done", !.result = 0,
                              !.err = "failed to fetch games",
                              !.log = @ \cup {"Failed to fetch games"}]
    /\ UNCHANGED <<now, env, wf>>

\* A scoreboard event: its competitions, the competitors of the first of
\* them, and the Game that BuildGame makes of it.
Event(game, competitions, competitors) ==
    [Competitions |-> competitions, Competitors |-> competitors, Game |-> game]

\* activities.go:83-95: the games of the events of one response that pass
\* the filter, in the order of the response.
RECURSIVE GamesOf(_, _)
GamesOf(events, teams) ==
    IF events = <<>> THEN <<>>
    ELSE LET event == Head(events)
             keep == /\ event.Competitions > 0 /\ event.Competitors >= 2
                     /\ \/ teams = <<>>
                        \/ Contains(teams, event.Game.HomeTeam.ID)
                        \/ Contains(teams, event.Game.AwayTeam.ID)
         IN (IF keep THEN <<event.Game>> ELSE <<>>) \o GamesOf(Tail(events), teams)

\* activities.go:62-96: the scoreboards of the requested conferences, in the
\* order of the request.
RECURSIVE ConferenceGames(_, _)
ConferenceGames(conferences, espn) ==
    IF conferences = <<>> THEN <<>>
    ELSE GamesOf(espn.groups[Head(conferences)], <<>>)
            \o ConferenceGames(Tail(conferences), espn)

\* The general scoreboard fetched for a request that names nothing.
GetGamesActivity_DefaultScoreboard(trackingRequest, espn) ==
    IF Len(trackingRequest.Conferences) = 0 /\ Len(trackingRequest.Teams) = 0
    THEN GamesOf(espn.scoreboard, <<>>)
    ELSE ConferenceGames(trackingRequest.Conferences, espn)
            \o (IF Len(trackingRequest.Teams) > 0
                THEN GamesOf(espn.scoreboard, trackingRequest.Teams) ELSE <<>>)

\* activities.go:51-139: the games of the requested conferences, then the
\* games of the general scoreboard that a requested team plays in.
GetGamesActivity(trackingRequest, espn) ==
    ConferenceGames(trackingRequest.Conferences, espn)
        \o (IF Len(trackingRequest.Teams) > 0
            THEN GamesOf(espn.scoreboard, trackingRequest.Teams) ELSE <<>>)

\* collect_games_workflow.go:90-108: the fetch returns the games.
GetGamesSucceeded(espn) ==
    /\ sched.pc = "getGames"
    /\ sched' = CollectLoop([sched EXCEPT !.games =
                                GetGamesActivity(sched.request, espn)])
    /\ UNCHANGED <<now, env, wf>>

\* The game skipped and the loop continued.
StartGameWorkflowFailed_Skip ==
    /\ sched.pc = "spawn"
    /\ sched' = CollectLoop([sched EXCEPT
                    !.log = @ \cup {"Failed to start game workflow"}])
    /\ UNCHANGED <<now, env, wf>>

\* The monitors the run has started taken back when a spawn fails.
StartGameWorkflowFailed_RollBack ==
    /\ sched.pc = "spawn"
    /\ sched' = [sched EXCEPT !.pc = "done", !.result = 0,
                              !.err = "unable to execute workflow",
                              !.log = @ \cup {"Failed to start game workflow"}]
    /\ wf' = [r \in RunIds |->
                IF \E k \in 1..Len(sched.spawned) :
                      wf[r].wid = WorkflowID(sched.games[sched.spawned[k]])
                THEN NoRun ELSE wf[r]]
    /\ UNCHANGED <<now, env>>

\* activities.go:26-45 and collect_games_workflow.go:102-106
StartGameWorkflowFailed ==
    /\ sched.pc = "spawn"
    /\ sched' = [sched EXCEPT !.pc = "done", !.result = 0,
                              !.err = "unable to execute workflow",
                              !.log = @ \cup {"Failed to start game workflow"}]
    /\ UNCHANGED <<now, env, wf>>

StartGameWorkflowSucceeded ==
    /\ sched.pc = "spawn"
    /\ env.TASK_QUEUE # ""
    /\ LET game == sched.games[sched.idx]
           options == StartWorkflowOptions(game)
       IN /\ Attaches(options) \/ FreeRuns # {}
          /\ wf' = ExecuteWorkflow(options, game)
    /\ sched' = CollectLoop(sched)
    /\ UNCHANGED <<now, env>>

\* web/handlers.go:271-272: the workflow id is the wall clock to the second.
TrackingWorkflowID(second) == "sports-" \o ToString(second)

\* web/handlers.go:247-303: StartTracking serves a request at a second of the
\* wall clock, which does not go back.  client.ExecuteWorkflow returns the
\* execution that is running under the workflow id, if there is one, and
\* starts one otherwise (the SDK's defaults, see activities.go:22-23); the
\* handler answers "Tracking started successfully" in both cases.  The model
\* holds one run of CollectGamesWorkflow at a time.
StartTracking(req, second) ==
    /\ second \in {sched.stamp, sched.stamp + 1}
    /\ env.TASK_QUEUE # ""
    /\ IF sched.pc \in {"getGames", "spawn"}
       THEN /\ sched.wid = TrackingWorkflowID(second)
            /\ sched' = [sched EXCEPT !.stamp = second, !.accepted = req]
       ELSE sched' = [NoSched EXCEPT !.pc = "getGames", !.request = req,
                                     !.timer = now,
                                     !.wid = TrackingWorkflowID(second),
                                     !.stamp = second, !.accepted = req]
    /\ UNCHANGED <<now, env, wf>>

----------------------------------------------------------------------------
(* One monitor on its own *)

TypeChoices ==
    {<<>>, <<"bogus">>, <<"score_change">>, <<"underdog">>, <<"overtime">>,
     <<"score_change", "underdog">>, <<"score_change", "overtime">>,
     <<"underdog", "overtime">>, <<"underdog", "score_change", "overtime">>}

ChannelChoices ==
    {<<>>, <<"slack", "logger">>, <<"logger", "slack", "hass">>, <<"teams", "logger">>}


\* A monitor started for game 401, which starts at `start`.
InitWith(types, channels, starts, underdogs) ==
    /\ now = 0
    /\ env \in [NOTIFICATION_TYPES : types,
                NOTIFICATION_CHANNELS : channels,
                TASK_QUEUE : {"sports"}]
    /\ \E start \in starts, ud \in underdogs :
          wf = [r \in RunIds |->
                  IF r = 1
                  THEN NewRun("game-401", NewGame("401", start, "pre", ud, ZeroScores))
                  ELSE NoRun]
    /\ sched = NoSched

InitMonitor == InitWith(TypeChoices, {<<"slack">>}, {MaxStart}, UnderdogChoices)

NextMonitor ==
    \/ Tick
    \/ \E r \in RunIds : GameWorkflowStart(r)
    \/ \E r \in RunIds : StartTimerFired(r)
    \/ \E r \in RunIds : PollTimerFired(r)
    \/ \E r \in RunIds : GetGameScoreFailed(r)
    \/ \E r \in RunIds, u \in GameUpdates : GetGameScoreSucceeded(r, u)
    \/ \E r \in RunIds : SendNotificationListSucceeded(r)
    \/ \E r \in RunIds : SendNotificationListFailed(r)

SpecMonitor == InitMonitor /\ [][NextMonitor]_vars

\* The monitor under the default notification types.  Timers fire and an
\* activity returns, with a result or, its attempts spent, with an error: a
\* step that can be taken is taken.
InitDefault ==
    InitWith({<<>>}, {<<"slack">>}, {0, MaxStart}, {<<FALSE, FALSE>>})

SpecMonitorFair ==
    InitDefault /\ [][NextMonitor]_vars /\ WF_vars(NextMonitor)

\* The monitor and the attempts of its fetch activity.
NextRetry ==
    \/ NextMonitor
    \/ \E r \in RunIds : GetGameScoreAttemptFailed(r)

SpecRetry == InitDefault /\ [][NextRetry]_vars

\* The monitor and the requests to cancel it.
NextCancel ==
    \/ NextMonitor
    \/ \E r \in RunIds : CancelWorkflow(r)

SpecCancel == InitDefault /\ [][NextCancel]_vars

\* The same monitor under the channel lists, started before and after the
\* start of its game, for the claims about the dispatch.
InitDispatch ==
    InitWith({<<>>, <<"underdog", "score_change", "overtime">>}, ChannelChoices,
             {0, MaxStart}, {<<TRUE, FALSE>>})

SpecDispatch == InitDispatch /\ [][NextMonitor]_vars

\* The monitor and the scoreboard its fetch activity reads.  An event of the
\* scoreboard is a competition of game 401 or of another game, or has no
\* competition; the competition lists the competitors the upstream sends.
OtherID == "999"

CompetitorLists ==
    {<<Competitor(HomeID, Itoa(7)), Competitor(AwayID, Itoa(0))>>,
     <<Competitor(AwayID, Itoa(7)), Competitor(HomeID, Itoa(7))>>,
     <<Competitor(HomeID, Itoa(7))>>,
     <<Competitor(HomeID, Itoa(0)), Competitor(AwayID, Itoa(0)),
       Competitor(OtherID, Itoa(0))>>,
     <<>>}

ScoreboardEvents ==
    [ID : {"401", "402"}, Competitions : {0, 1}, Competitors : CompetitorLists,
     Period : {0, 1}, DisplayClock : Clocks]

MaxScoreboard == 1
Scoreboards == UNION {[1..n -> ScoreboardEvents] : n \in 0..MaxScoreboard}

InitFetch == InitWith({<<>>}, {<<"logger">>}, {0}, {<<FALSE, FALSE>>})

NextFetch ==
    \/ Tick
    \/ \E r \in RunIds : GameWorkflowStart(r)
    \/ \E r \in RunIds : PollTimerFired(r)
    \/ \E r \in RunIds : GetGameScoreFailed(r)
    \/ \E r \in RunIds, events \in Scoreboards :
          wf[r].pc = "fetch" /\ GetGameScoreResponded(r, events)
    \/ \E r \in RunIds : SendNotificationListSucceeded(r)

SpecFetch == InitFetch /\ [][NextFetch]_vars

\* The monitor and the sends of its dispatch activity, one notification at
\* a time.
InitSend ==
    InitWith({<<"score_change", "overtime">>}, {<<"slack", "logger">>}, {0},
             {<<FALSE, FALSE>>})

NextSend ==
    \/ Tick
    \/ \E r \in RunIds : GameWorkflowStart(r)
    \/ \E r \in RunIds : PollTimerFired(r)
    \/ \E r \in RunIds : GetGameScoreFailed(r)
    \/ \E r \in RunIds, u \in GameUpdates : GetGameScoreSucceeded(r, u)
    \/ \E r \in RunIds : SendNotificationSucceeded(r)
    \/ \E r \in RunIds : SendNotificationFailed(r)

SpecSend == InitSend /\ [][NextSend]_vars

\* The monitor with the underdog category enabled, for games with the home
\* team, the away team or no team marked as underdog.
InitUnderdog ==
    InitWith({<<"underdog">>, <<"score_change", "underdog">>}, {<<"logger">>},
             {0}, UnderdogChoices)

NextUnderdog ==
    \/ Tick
    \/ \E r \in RunIds : GameWorkflowStart(r)
    \/ \E r \in RunIds : PollTimerFired(r)
    \/ \E r \in RunIds : GetGameScoreFailed(r)
    \/ \E r \in RunIds, u \in GameUpdates : GetGameScoreSucceededLead(r, u)
    \/ \E r \in RunIds : SendNotificationListSucceeded(r)

SpecUnderdog == InitUnderdog /\ [][NextUnderdog]_vars

\* The monitor with the underdog category enabled and a designated underdog,
\* under scores of one and of two digits.
JudgeScores == {Itoa(n) : n \in {0, 7, 9, 10, 14}}

JudgeUpdates ==
    [CurrentScore : [{HomeID, AwayID} -> JudgeScores],
     CurrentPeriod : {Itoa(1)}, DisplayClock : Clocks]

InitJudge ==
    InitWith({<<"underdog">>}, {<<"logger">>}, {0}, {<<TRUE, FALSE>>, <<FALSE, TRUE>>})

NextJudge ==
    \/ Tick
    \/ \E r \in RunIds : GameWorkflowStart(r)
    \/ \E r \in RunIds : PollTimerFired(r)
    \/ \E r \in RunIds : GetGameScoreFailed(r)
    \/ \E r \in RunIds, u \in JudgeUpdates : GetGameScoreSucceeded(r, u)
    \/ \E r \in RunIds : SendNotificationListSucceeded(r)

SpecJudge == InitJudge /\ [][NextJudge]_vars

\* The monitor with the overtime category enabled, the scoreboard reporting
\* up to MaxOvertime overtime periods after the regulation periods.
MaxOvertime == 4

OvertimeUpdates ==
    [CurrentScore : {ZeroScores},
     CurrentPeriod : {Itoa(p) : p \in 1..(NoGame.NumberOfPeriods + MaxOvertime)},
     DisplayClock : Clocks]

InitOvertime ==
    InitWith({<<"overtime">>}, {<<"logger">>}, {0}, {<<FALSE, FALSE>>})

NextOvertime ==
    \/ Tick
    \/ \E r \in RunIds : GameWorkflowStart(r)
    \/ \E r \in RunIds : PollTimerFired(r)
    \/ \E r \in RunIds : GetGameScoreFailed(r)
    \/ \E r \in RunIds, u \in OvertimeUpdates : GetGameScoreSucceeded(r, u)
    \/ \E r \in RunIds : SendNotificationListSucceeded(r)

SpecOvertime == InitOvertime /\ [][NextOvertime]_vars

\* The monitor of a game of each sport the service offers, with the score
\* and the underdog categories enabled.
Sports == {"baseball", "basketball", "football", "hockey", "soccer"}

InitPeriod ==
    /\ now = 0
    /\ env = [NOTIFICATION_TYPES |-> <<"score_change", "underdog">>,
              NOTIFICATION_CHANNELS |-> <<"logger">>,
              TASK_QUEUE |-> "sports"]
    /\ \E sport \in Sports, ud \in {<<TRUE, FALSE>>, <<FALSE, TRUE>>} :
          wf = [r \in RunIds |->
                  IF r = 1
                  THEN NewRun("game-401",
                              [NewGame("401", 0, "pre", ud, ZeroScores)
                                  EXCEPT !.Sport = sport])
                  ELSE NoRun]
    /\ sched = NoSched

SpecPeriod == InitPeriod /\ [][NextUnderdog]_vars

\* A monitor created before the start of its game, at it, during the
\* monitoring horizon, at its end or after it, its poll iterations counted.
InitHorizon ==
    /\ now \in 0..(MaxStart + MonitoringHorizon)
    /\ env = [NOTIFICATION_TYPES |-> <<>>, NOTIFICATION_CHANNELS |-> <<"logger">>,
              TASK_QUEUE |-> "sports"]
    /\ \E start \in {0, MaxStart} :
          wf = [r \in RunIds |->
                  IF r = 1
                  THEN NewRun("game-401",
                              NewGame("401", start, "pre", <<FALSE, FALSE>>, SevenNil))
                  ELSE NoRun]
    /\ sched = NoSched

NextHorizon ==
    \/ Tick
    \/ \E r \in RunIds : GameWorkflowStart(r)
    \/ \E r \in RunIds : StartTimerFired(r)
    \/ \E r \in RunIds : PollTimerFiredCounted(r)
    \/ \E r \in RunIds : GetGameScoreFailed(r)
    \/ \E r \in RunIds, u \in GameUpdates : GetGameScoreSucceeded(r, u)
    \/ \E r \in RunIds : SendNotificationListSucceeded(r)

SpecHorizon == InitHorizon /\ [][NextHorizon]_vars

\* The monitor under channel lists that name a channel the dispatch activity
\* does not know, and the attempts of its dispatch activity.
ConfigChoices == {<<"teams", "logger">>, <<"logger", "teams">>, <<"slack", "teams">>}

InitConfig ==
    InitWith({<<>>, <<"score_change", "overtime">>}, ConfigChoices,
             {0, MaxStart}, {<<FALSE, FALSE>>})

NextConfig ==
    \/ NextMonitor
    \/ \E r \in RunIds : SendNotificationListAttemptFailed(r)

SpecConfig == InitConfig /\ [][NextConfig]_vars

----------------------------------------------------------------------------
(* The scheduler and the monitors it starts, which are followed until they *)
(* enter the polling loop                                                  *)

FutureStart == MaxStart + 1

\* What the scoreboard can list: game 401 before and after its odds are
\* published and its start is moved, game 402, and game 403, which is over.
Catalog ==
    {NewGame("401", MaxStart, "pre", <<FALSE, FALSE>>, ZeroScores),
     NewGame("401", FutureStart, "pre", <<TRUE, FALSE>>, ZeroScores),
     NewGame("402", FutureStart, "pre", <<FALSE, TRUE>>, ZeroScores),
     NewGame("403", 0, "post", <<FALSE, FALSE>>,
             [t \in {HomeID, AwayID} |-> IF t = HomeID THEN Itoa(7) ELSE Itoa(0)])}

MaxGames == 3
GameLists == UNION {[1..n -> Catalog] : n \in 0..MaxGames}

ConferenceIds == {"5", "4"}

\* The scoreboards answer with the same list of complete events.
Responses ==
    {[groups |-> [c \in ConferenceIds |->
                    [i \in DOMAIN games |-> Event(games[i], 1, 2)]],
      scoreboard |-> [i \in DOMAIN games |-> Event(games[i], 1, 2)]] :
        games \in GameLists}

TrackingRequests ==
    {[Sport |-> "football", League |-> "college-football",
      Teams |-> <<>>, Conferences |-> <<"5">>],
     [Sport |-> "football", League |-> "college-football",
      Teams |-> <<>>, Conferences |-> <<>>]}

InitSched ==
    /\ now = 0
    /\ env = [NOTIFICATION_TYPES |-> <<>>, NOTIFICATION_CHANNELS |-> <<"slack">>,
              TASK_QUEUE |-> "sports"]
    /\ wf = [r \in RunIds |-> NoRun]
    /\ sched = NoSched

NextSched ==
    \/ Tick
    \/ \E q \in TrackingRequests : CollectGamesWorkflowStart(q)
    \/ GetGamesFailed
    \/ \E espn \in Responses : GetGamesSucceeded(espn)
    \/ StartGameWorkflowFailed
    \/ StartGameWorkflowSucceeded
    \/ \E r \in RunIds : GameWorkflowStart(r)
    \/ \E r \in RunIds : StartTimerFired(r)

SpecSched == InitSched /\ [][NextSched]_vars

\* The fetch of the games on its own: requests that name conferences and
\* teams, and scoreboards none of which lists a game twice.
MaxEvents == 1

EventChoices ==
    {Event(NewGame("401", MaxStart, "pre", <<FALSE, FALSE>>, ZeroScores), 1, 2),
     Event(NewGame("402", FutureStart, "pre", <<FALSE, TRUE>>, ZeroScores), 1, 2),
     Event(NewGame("403", FutureStart, "pre", <<FALSE, FALSE>>, ZeroScores), 1, 1),
     Event(NewGame("404", FutureStart, "pre", <<FALSE, FALSE>>, ZeroScores), 0, 0)}

EventLists ==
    {l \in UNION {[1..n -> EventChoices] : n \in 0..MaxEvents} :
        \A i, j \in DOMAIN l : l[i].Game.ID = l[j].Game.ID => i = j}

ScoreboardResponses == [groups : [ConferenceIds -> EventLists], scoreboard : EventLists]

\* web/handlers.go:253-288: StartTracking decodes the body of the request
\* and hands it to the workflow as it is; a field the body leaves out is the
\* empty string.
SportChoices == {"football", ""}
LeagueChoices == {"college-football", ""}

RequestChoices ==
    {[Sport |-> sport, League |-> league,
      Teams |-> teams, Conferences |-> conferences] :
        sport \in SportChoices, league \in LeagueChoices,
        teams \in {<<>>, <<"130">>, <<"999">>},
        conferences \in {<<>>, <<"5">>, <<"5", "4">>}}

NextGetGames ==
    \/ \E q \in RequestChoices : CollectGamesWorkflowStart(q)
    \/ GetGamesFailed
    \/ \E espn \in ScoreboardResponses : GetGamesSucceeded(espn)
    \/ StartGameWorkflowFailed
    \/ StartGameWorkflowSucceeded

SpecGetGames == InitSched /\ [][NextGetGames]_vars

\* The requests that StartTracking serves within the first seconds of the
\* wall clock, and the runs it starts for them.
MaxSecond == 2

NextTrack ==
    \/ \E q \in TrackingRequests, second \in 0..MaxSecond : StartTracking(q, second)
    \/ GetGamesFailed
    \/ \E espn \in ScoreboardResponses : GetGamesSucceeded(espn)
    \/ StartGameWorkflowFailed
    \/ StartGameWorkflowSucceeded

SpecTrack == InitSched /\ [][NextTrack]_vars

----------------------------------------------------------------------------
(* Claims about the scheduler, checked under SpecSched *)

Range(seq) == {seq[i] : i \in 1..Len(seq)}

\* The spawn activity of the scheduler returned without error in this step.
SpawnReturned == sched.pc = "spawn" /\ sched' # sched /\ sched'.err = ""

ActiveFor(id) == {r \in RunIds : Running(r) /\ wf[r].wid = "game-" \o id}

\* C1: at most one monitor is active per game id, whatever spawns were made:
\* a spawn for a game whose monitor is active changes no execution, and a
\* spawn for a game without an active monitor starts exactly one, for that
\* game.
C1_OneMonitorPerGame ==
    /\ [](\A r1, r2 \in RunIds :
            (Running(r1) /\ Running(r2) /\ wf[r1].game.ID = wf[r2].game.ID)
                => r1 = r2)
    /\ [][SpawnReturned =>
            LET game == sched.games[sched.idx] IN
            IF ActiveFor(game.ID) # {}
            THEN wf' = wf
            ELSE \E r \in RunIds :
                    /\ ~Running(r)
                    /\ wf' = [wf EXCEPT ![r] = NewRun("game-" \o game.ID, game)]]_vars

\* A run that requested two spawns for game 401 with different snapshots of
\* it has ended, and the monitor still holds the first snapshot.
C1_Witness ==
    /\ sched.pc = "done" /\ sched.err = ""
    /\ \E i, j \in Range(sched.spawned) :
          /\ i < j
          /\ sched.games[i].ID = sched.games[j].ID
          /\ sched.games[i] # sched.games[j]
          /\ \E r \in RunIds : Running(r) /\ wf[r].initial = sched.games[i]
                                /\ wf[r].pc # "start"

\* In this step the scheduler ran its loop from the game after sched.idx.
LoopRan == sched.pc \in {"getGames", "spawn"} /\ sched' # sched /\ sched'.err = ""

\* C2: a spawn is requested for a fetched game exactly when its status is
\* "pre" and its start time is strictly after now; a run that ends without
\* error has requested a spawn for every game that still qualifies and for
\* no game that is not scheduled, each at most once.
C2_SpawnIffScheduledAndFuture ==
    /\ [][LoopRan =>
            \A i \in (sched.idx + 1)..sched'.idx :
               (i \in Range(sched'.spawned)) <=>
                   (sched'.games[i].Status = "pre" /\ sched'.games[i].StartTime > now)]_vars
    /\ []((sched.pc = "done" /\ sched.err = "") =>
            /\ \A i \in 1..Len(sched.games) :
                  /\ (sched.games[i].Status = "pre" /\ sched.games[i].StartTime > now)
                        => i \in Range(sched.spawned)
                  /\ i \in Range(sched.spawned) => sched.games[i].Status = "pre"
            /\ Cardinality(Range(sched.spawned)) = Len(sched.spawned))

\* Three games were fetched, two scheduled ones that start later and one
\* that is final and started in the past: two spawns were requested.
C2_Witness ==
    /\ sched.pc = "done" /\ sched.err = ""
    /\ Len(sched.games) = 3
    /\ Len(sched.spawned) = 2
    /\ \E i \in 1..3 : sched.games[i].Status = "post" /\ sched.games[i].StartTime < now
    /\ \A i \in Range(sched.spawned) : sched.games[i].StartTime > now
    /\ Cardinality({wf[r].wid : r \in {q \in RunIds : Running(q)}}) = 2

----------------------------------------------------------------------------
(* Claims about the monitor, checked under SpecMonitor and SpecDispatch *)

Started == {r \in RunIds : wf[r].status # "none"}

Kinds(list) == {list[i].Kind : i \in 1..Len(list)}
Count(list, kind) == Cardinality({i \in 1..Len(list) : list[i].Kind = kind})

\* The fetch of run r returned in this step, with a result or with an error.
FetchReturnedOK(r) == wf[r].pc = "fetch" /\ wf'[r].fetch = "ok"
FetchReturnedError(r) == wf[r].pc = "fetch" /\ wf'[r].fetch = "failed"

\* C3, as claimed: while every successful fetch has returned the scores the
\* game started with, no score-change notification is produced and the
\* dispatcher is never invoked.
C3_SteadyScoresNeverDispatch ==
    \A r \in Started :
        wf[r].steady =>
            /\ "score_change" \notin Kinds(wf[r].notificationList)
            /\ wf[r].pc # "dispatch"
            /\ wf[r].attempts = <<>>

\* C3, amended: while every successful fetch has returned the scores the
\* game started with, no score-change and no underdog notification is
\* produced, and the dispatcher is invoked only for an overtime notification.
C3_SteadyScoresNoScoreNotification ==
    \A r \in Started :
        wf[r].steady =>
            /\ Kinds(wf[r].notificationList) \subseteq {"overtime"}
            /\ (wf[r].pc = "dispatch" \/ wf[r].attempts # <<>>)
                  => "overtime" \in Kinds(wf[r].notificationList)

\* A monitor has ended whose fetches all succeeded with the initial scores.
C3_Witness ==
    \E r \in Started :
        /\ wf[r].status = "completed" /\ wf[r].steady
        /\ wf[r].fetch = "ok" /\ wf[r].log = {}
        /\ wf[r].notificationList = <<>>

ScoresDiffer(a, b) ==
    \E t \in {HomeID, AwayID} : Lookup(a, t) # Lookup(b, t)

\* C4: a successful poll whose scores differ from the last known scores
\* produces exactly one score-update notification when score_change is
\* enabled (none otherwise) and makes the observed scores the last known
\* ones; a poll whose scores equal the last known ones produces none.
C4_ScoreChangeFiresOnce ==
    [][\A r \in RunIds : FetchReturnedOK(r) =>
          IF ScoresDiffer(wf'[r].game.CurrentScore, wf[r].lastScores)
          THEN /\ Count(wf'[r].notificationList, "score_change")
                     = IF Contains(wf[r].notificationTypes, "score_change")
                       THEN 1 ELSE 0
               /\ wf'[r].lastScores = wf'[r].game.CurrentScore
          ELSE /\ Count(wf'[r].notificationList, "score_change") = 0
               /\ wf'[r].lastScores = wf[r].lastScores]_vars

\* A poll has observed new scores: one notification, last scores advanced.
C4_Witness ==
    \E r \in Started :
        /\ wf[r].fetch = "ok"
        /\ Count(wf[r].notificationList, "score_change") = 1
        /\ wf[r].lastScores = wf[r].game.CurrentScore
        /\ wf[r].lastScores # wf[r].initial.CurrentScore

\* With underdog enabled, the poll on which the underdog gets ahead produces
\* an underdog notification.
C5_FiresOnTakingTheLead ==
    [][\A r \in RunIds :
          (/\ FetchReturnedOK(r)
           /\ Contains(wf[r].notificationTypes, "underdog")
           /\ ~UnderdogAhead(wf[r].game) /\ UnderdogAhead(wf'[r].game))
             => Count(wf'[r].notificationList, "underdog") = 1]_vars

\* With underdog enabled, a poll on which the underdog is still ahead
\* produces no underdog notification.
C5_SilentWhileAhead ==
    [][\A r \in RunIds :
          (/\ FetchReturnedOK(r)
           /\ Contains(wf[r].notificationTypes, "underdog")
           /\ UnderdogAhead(wf[r].game) /\ UnderdogAhead(wf'[r].game))
             => Count(wf'[r].notificationList, "underdog") = 0]_vars

\* C5: with underdog enabled, an underdog notification is produced on the
\* poll where the underdog gets ahead and on no later poll while it stays
\* ahead, also when the score changes again.
C5_UnderdogEdgeTriggered == C5_SilentWhileAhead /\ C5_FiresOnTakingTheLead

OvertimeObserved(r) ==
    /\ FetchReturnedOK(r)
    /\ Contains(wf[r].notificationTypes, "overtime")
    /\ ~Atoi(wf'[r].game.CurrentPeriod).err
    /\ Atoi(wf'[r].game.CurrentPeriod).val > wf[r].game.NumberOfPeriods

\* C6, as claimed: with overtime enabled, a poll that observes an overtime
\* period produces one overtime notification if that period number was not
\* observed before, and none if it was.
C6_OncePerOvertimePeriod ==
    [][\A r \in RunIds : OvertimeObserved(r) =>
          Count(wf'[r].notificationList, "overtime")
             = IF Atoi(wf'[r].game.CurrentPeriod).val \notin wf[r].seenOvertime
               THEN 1 ELSE 0]_vars

\* C6, amended: with overtime enabled, a poll that observes an overtime
\* period produces one overtime notification if that period number is
\* higher than every period number observed before, and none otherwise.
C6_OncePerHigherOvertimePeriod ==
    [][\A r \in RunIds : OvertimeObserved(r) =>
          Count(wf'[r].notificationList, "overtime")
             = IF \A q \in wf[r].seenOvertime :
                      Atoi(wf'[r].game.CurrentPeriod).val > q
               THEN 1 ELSE 0]_vars

\* A second overtime period has been observed and notified, and a poll has
\* observed an overtime period again without a notification.
C6_Witness ==
    \E r \in Started :
        /\ Contains(wf[r].notificationTypes, "overtime")
        /\ Cardinality(wf[r].seenOvertime) = 2
        /\ wf[r].fetch = "ok"
        /\ Atoi(wf[r].game.CurrentPeriod).val \in wf[r].seenOvertime
        /\ Count(wf[r].notificationList, "overtime") = 0
        /\ wf[r].lastOvertimePeriod = Atoi(wf[r].game.CurrentPeriod).val

Channels(attempts) == [i \in 1..Len(attempts) |-> attempts[i].Channel]

\* C7: an iteration with notifications attempts the delivery to every
\* configured channel, once and in the configured order, whatever attempts
\* failed.
C7_EveryChannelAttempted ==
    \A r \in Started :
        /\ (wf[r].pc \in {"pollTimer", "done"} /\ wf[r].notificationList # <<>>)
              => Channels(wf[r].attempts) = wf[r].notificationChannels
        /\ wf[r].pc = "dispatch"
              => Channels(wf[r].attempts)
                    = SubSeq(wf[r].notificationChannels, 1, wf[r].channel - 1)

\* An iteration has ended in which the delivery to a channel failed and the
\* delivery to the channel after it succeeded.
C7_Witness ==
    \E r \in Started :
        /\ wf[r].pc \in {"pollTimer", "done"}
        /\ \E i \in 1..(Len(wf[r].attempts) - 1) :
              ~wf[r].attempts[i].ok /\ wf[r].attempts[i + 1].ok

\* The delivery of run r to a channel failed in this step.
DispatchFailed(r) ==
    /\ wf[r].pc = "dispatch"
    /\ Len(wf'[r].attempts) = Len(wf[r].attempts) + 1
    /\ ~wf'[r].attempts[Len(wf'[r].attempts)].ok

PollingState(w) ==
    <<w.game, w.lastScores, w.lastOvertimePeriod, w.underdogWinning,
      w.notificationList>>

\* C8: a failed delivery fails neither the iteration nor the monitor: the
\* monitor goes on to the next channel, after the last channel to the next
\* poll timer and, at the horizon, to its normal end with the final score;
\* no run ever ends with an error.
C8_DispatchFailureTolerated ==
    /\ [][\A r \in RunIds : DispatchFailed(r) =>
            /\ PollingState(wf'[r]) = PollingState(wf[r])
            /\ wf'[r].err = ""
            /\ IF wf[r].channel < Len(wf[r].notificationChannels)
               THEN wf'[r].pc = "dispatch" /\ wf'[r].channel = wf[r].channel + 1
               ELSE IF now < wf[r].game.StartTime + MonitoringHorizon
               THEN wf'[r].pc = "pollTimer" /\ wf'[r].status = "running"
               ELSE /\ wf'[r].pc = "done" /\ wf'[r].status = "completed"
                    /\ wf'[r].result = FinalScore(wf[r].game)]_vars
    /\ [](\A r \in Started :
            "Failed to send notification" \in wf[r].log
                => wf[r].status \in {"running", "completed"} /\ wf[r].err = "")

\* A monitor whose delivery failed in an earlier iteration has delivered the
\* notifications of a later iteration and has ended normally.
C8_Witness ==
    \E r \in Started :
        /\ "Failed to send notification" \in wf[r].log
        /\ wf[r].attempts # <<>>
        /\ \A i \in 1..Len(wf[r].attempts) : wf[r].attempts[i].ok
        /\ wf[r].status = "completed"
        /\ wf[r].result = FinalScore(wf[r].game)

\* C9: a failed fetch leaves the Game, lastScores, lastOvertimePeriod and
\* underdogWinning as they were, builds no notification and dispatches none.
C9_FetchFailureChangesNothing ==
    [][\A r \in RunIds : FetchReturnedError(r) =>
          /\ wf'[r].game = wf[r].game
          /\ wf'[r].lastScores = wf[r].lastScores
          /\ wf'[r].lastOvertimePeriod = wf[r].lastOvertimePeriod
          /\ wf'[r].underdogWinning = wf[r].underdogWinning
          /\ wf'[r].notificationList = <<>>
          /\ wf'[r].attempts = <<>>
          /\ wf'[r].pc # "dispatch"]_vars

\* A fetch has failed after earlier polls changed the scores, the period and
\* both trackers.
C9_Witness ==
    \E r \in Started :
        /\ wf[r].fetch = "failed"
        /\ wf[r].game.CurrentScore # wf[r].initial.CurrentScore
        /\ wf[r].lastOvertimePeriod > wf[r].game.NumberOfPeriods
        /\ wf[r].underdogWinning

\* C10: no fetch failure is surfaced: whatever the fetches return, a run
\* never ends with an error, a failed fetch is followed by the next poll
\* timer or, at the horizon, by the normal end, and every run ends, at the
\* horizon, returning its final-score string.
C10_FetchFailureNotSurfaced ==
    /\ \A r \in RunIds :
          (wf[r].status = "running") ~> (wf[r].status = "completed")
    /\ [](\A r \in Started :
            /\ wf[r].status \in {"running", "completed"}
            /\ wf[r].err = ""
            /\ wf[r].status = "completed"
                  => /\ wf[r].result = FinalScore(wf[r].game)
                     /\ now >= wf[r].game.StartTime + MonitoringHorizon)
    /\ [][\A r \in RunIds : FetchReturnedError(r) =>
            IF now < wf[r].game.StartTime + MonitoringHorizon
            THEN wf'[r].pc = "pollTimer" /\ wf'[r].status = "running"
            ELSE wf'[r].pc = "done" /\ wf'[r].status = "completed"]_vars

\* A monitor all of whose fetches failed has ended with its final score.
C10_Witness ==
    \E r \in Started :
        /\ wf[r].status = "completed" /\ wf[r].err = ""
        /\ wf[r].fetch = "failed"
        /\ wf[r].game = wf[r].initial
        /\ wf[r].result = FinalScore(wf[r].initial)

----------------------------------------------------------------------------
(* Claims about the fetch attempts, the end of the monitor, its wait, its *)
(* cancellation and its query                                             *)

\* C11, as claimed: a poll iteration makes at most one attempt to fetch, and
\* after a failed fetch none is made before the next poll timer has fired.
C11_OneAttemptPerIteration ==
    /\ [](\A r \in Started : wf[r].tries = 0 /\ wf[r].attemptsMade <= 1)
    /\ [][\A r \in RunIds : FetchReturnedError(r) =>
            wf'[r].pc \in {"pollTimer", "done"}]_vars

\* C11, amended: a poll iteration issues one fetch activity, which makes at
\* most MaximumAttempts attempts and returns an error only when the last of
\* them failed; after that error the workflow issues no fetch before the next
\* poll timer, set a poll interval ahead, has fired.
C11_OneActivityPerIteration ==
    /\ [](\A r \in Started :
            /\ wf[r].tries < MaximumAttempts
            /\ wf[r].attemptsMade <= MaximumAttempts
            /\ wf[r].fetch = "failed" => wf[r].attemptsMade = MaximumAttempts)
    /\ [][\A r \in RunIds :
            /\ FetchReturnedError(r) =>
                  /\ wf'[r].pc \in {"pollTimer", "done"}
                  /\ wf'[r].pc = "pollTimer" => wf'[r].timer = now + PollInterval
            /\ (wf'[r].pc = "fetch" /\ wf[r].pc # "fetch") =>
                  /\ wf[r].pc = "pollTimer" /\ now >= wf[r].timer
                  /\ wf'[r].tries = 0]_vars

\* A fetch has failed after its last attempt and the monitor waits for the
\* next poll timer.
C11_Witness ==
    \E r \in Started :
        /\ wf[r].fetch = "failed" /\ wf[r].attemptsMade = MaximumAttempts
        /\ wf[r].pc = "pollTimer" /\ wf[r].timer > now

\* The scores of the last fetch that succeeded, the initial ones without one.
LastObserved(w) ==
    IF w.fetched = <<>> THEN w.initial.CurrentScore ELSE w.fetched[1].CurrentScore

\* C12: without cancellation and with timers that fire, every monitor stops;
\* an iteration starts only while now is before startTime plus the horizon,
\* the monitor that has stopped returned the final-score string of the
\* scores it last observed, and the step that stops it sends nothing.
C12_EventuallyStopped ==
    /\ \A r \in RunIds : (wf[r].pc = "start") ~> (wf[r].pc = "done")
    /\ [](\A r \in Started :
            /\ wf[r].pc = "pollTimer" =>
                  wf[r].timer - PollInterval < wf[r].game.StartTime + MonitoringHorizon
            /\ wf[r].pc = "done" =>
                  /\ wf[r].status = "completed" /\ wf[r].err = ""
                  /\ now >= wf[r].game.StartTime + MonitoringHorizon
                  /\ wf[r].result =
                        <<"Final score:", wf[r].initial.HomeTeam.Abbreviation,
                          Lookup(LastObserved(wf[r]), HomeID),
                          wf[r].initial.AwayTeam.Abbreviation,
                          Lookup(LastObserved(wf[r]), AwayID)>>)
    /\ [][\A r \in RunIds : (wf'[r].pc = "done" /\ wf[r].pc # "done") =>
            /\ wf'[r].notificationList = wf[r].notificationList
            /\ wf[r].pc # "dispatch" => wf'[r].attempts = wf[r].attempts]_vars

\* A monitor has stopped after its last poll failed, with scores observed
\* earlier that differ from the initial ones.
C12_Witness ==
    \E r \in Started :
        /\ wf[r].pc = "done" /\ wf[r].fetch = "failed"
        /\ wf[r].fetched # <<>>
        /\ LastObserved(wf[r]) # wf[r].initial.CurrentScore

\* C13: before the start of its game a monitor is in its first task or in
\* the wait-until-start timer, set once to the start time: it has fetched
\* nothing and dispatched nothing, and it leaves the wait for the polling
\* loop only when the start time is reached.
C13_NoPollBeforeStart ==
    /\ [](\A r \in Started : now < wf[r].game.StartTime =>
            /\ wf[r].pc \in {"start", "waitStart"}
            /\ wf[r].pc = "waitStart" => wf[r].timer = wf[r].game.StartTime
            /\ wf[r].fetch = "" /\ wf[r].fetched = <<>> /\ wf[r].attemptsMade = 0
            /\ wf[r].attempts = <<>> /\ wf[r].notificationList = <<>>)
    /\ [][\A r \in RunIds :
            /\ (wf[r].pc = "waitStart" /\ wf'[r].pc # "waitStart") =>
                  now >= wf[r].game.StartTime /\ wf'[r].pc \in {"pollTimer", "done"}
            /\ (wf'[r].pc = "waitStart" /\ wf[r].pc # "waitStart") =>
                  wf[r].pc = "start"]_vars

\* A monitor created before the start of its game has waited and is in the
\* polling loop at the start time, before any fetch.
C13_Witness ==
    \E r \in Started :
        /\ wf[r].game.StartTime > 0 /\ now = wf[r].game.StartTime
        /\ wf[r].pc = "pollTimer" /\ wf[r].fetch = "" /\ wf[r].fetched = <<>>

\* C14: the first step of a monitor whose cancellation was requested while
\* it waited in the wait-until-start timer or in a poll timer ends the run:
\* it fetches nothing, sends nothing and is not in the polling loop.
C14_CancellationStopsMonitor ==
    [][\A r \in RunIds :
          (/\ wf[r].cancelledIn \in {"waitStart", "pollTimer"}
           /\ wf[r].status = "running"
           /\ wf'[r] # wf[r])
             => /\ wf'[r].status # "running"
                /\ wf'[r].pc \notin {"pollTimer", "fetch", "dispatch"}
                /\ wf'[r].attempts = wf[r].attempts
                /\ wf'[r].fetch = wf[r].fetch]_vars

\* The Game of the last successful fetch, as the query is meant to give it.
CurrentGame(w) ==
    IF w.fetched = <<>> THEN w.initial
    ELSE [w.initial EXCEPT !.CurrentScore = w.fetched[1].CurrentScore,
                           !.CurrentPeriod = w.fetched[1].CurrentPeriod,
                           !.DisplayClock = w.fetched[1].DisplayClock]

\* C15: once the first task of a monitor has run, in the wait, in the loop
\* and after the end, the gameInfo query has a handler and returns the Game
\* the monitor was created with, with the scores, period and clock of the
\* last fetch that succeeded.
C15_QueryReturnsCurrentGame ==
    \A r \in Started : wf[r].pc # "start" =>
        /\ wf[r].queryHandler
        /\ gameInfo(wf[r]) = CurrentGame(wf[r])

\* The query of a monitor whose last fetch failed returns the scores and the
\* period fetched before, which are not the initial ones.
C15_Witness ==
    \E r \in Started :
        /\ wf[r].queryHandler /\ wf[r].fetch = "failed"
        /\ wf[r].fetched # <<>>
        /\ gameInfo(wf[r]).CurrentScore # wf[r].initial.CurrentScore
        /\ gameInfo(wf[r]).CurrentPeriod = wf[r].fetched[1].CurrentPeriod

----------------------------------------------------------------------------
(* Claims about the errors and the result of the scheduler *)

EmptyRequest(q) == q # <<>> /\ Len(q.Teams) = 0 /\ Len(q.Conferences) = 0

\* C16: a run whose fetch of the games failed has ended with an error and
\* without a count, it has requested no spawn, and the failing step starts
\* no monitor.
C16_FetchGamesFailureAborts ==
    /\ []("Failed to fetch games" \in sched.log =>
            /\ sched.pc = "done" /\ sched.err # "" /\ sched.result = 0
            /\ sched.spawned = <<>> /\ sched.games = <<>>)
    /\ [][("Failed to fetch games" \in sched'.log \ sched.log) =>
            sched.pc = "getGames" /\ wf' = wf]_vars

\* The fetch of a run failed while a monitor of an earlier run is running.
C16_Witness ==
    /\ "Failed to fetch games" \in sched.log
    /\ sched.err # "" /\ sched.spawned = <<>>
    /\ \E r \in RunIds : Running(r)

\* C17: a run in which a spawn failed has ended with an error and without a
\* count: the failed game is the last one a spawn was requested for, and no
\* spawn was requested for a game after it in the list.
C17_SpawnFailureAborts ==
    /\ []("Failed to start game workflow" \in sched.log =>
            /\ sched.pc = "done" /\ sched.err # "" /\ sched.result = 0
            /\ sched.spawned # <<>>
            /\ sched.spawned[Len(sched.spawned)] = sched.idx
            /\ \A i \in Range(sched.spawned) : i <= sched.idx)
    /\ [][("Failed to start game workflow" \in sched'.log \ sched.log) =>
            /\ sched.pc = "spawn"
            /\ sched'.idx = sched.idx /\ sched'.spawned = sched.spawned]_vars

\* A spawn failed and a game after it in the list, scheduled and not yet
\* started, was left without a spawn request.
C17_Witness ==
    /\ "Failed to start game workflow" \in sched.log
    /\ sched.pc = "done" /\ sched.err # ""
    /\ \E j \in (sched.idx + 1)..Len(sched.games) :
          /\ Qualifies(sched.games[j])
          /\ sched.games[j].ID # sched.games[sched.idx].ID

\* C18: a run that ended without error returns the length of the fetched
\* list, whatever number of the games it requested a spawn for.
C18_ReturnsGamesDiscovered ==
    (sched.pc = "done" /\ sched.err = "") => sched.result = Len(sched.games)

\* A run over three games has returned 3 after fewer than three spawns.
C18_Witness ==
    /\ sched.pc = "done" /\ sched.err = ""
    /\ sched.result = 3 /\ Len(sched.games) = 3
    /\ Len(sched.spawned) \in 1..2

\* C19: the list of games the fetch accumulates for a request holds no game
\* id twice.
C19_GamesDeduplicated ==
    \A i, j \in DOMAIN sched.games :
        sched.games[i].ID = sched.games[j].ID => i = j

----------------------------------------------------------------------------
(* Claims about the configuration, the notifications and the trackers *)

\* C22: a run for a tracking request whose sport or league is empty ends
\* with an error: it never ends successfully.
C22_MissingFieldRejected ==
    (/\ sched.pc = "done"
     /\ sched.request.Sport = "" \/ sched.request.League = "")
        => sched.err # ""

\* C23: a score-update notification built on a poll carries the scores of
\* both teams, and the clock, as fetched on that poll.  A monitor with only
\* score_change enabled whose last known scores are 0-0 builds one
\* notification, with the scores "7" and "0", on the poll that observes 7-0,
\* and none on a poll that observes 0-0 again.
C23_ScoreUpdateCarriesCurrentScores ==
    [][\A r \in RunIds : FetchReturnedOK(r) =>
          LET gameUpdate == wf'[r].fetched[1]
              list == wf'[r].notificationList
          IN /\ \A i \in 1..Len(list) : list[i].Kind = "score_change" =>
                    /\ list[i].HomeScore = gameUpdate.CurrentScore[HomeID]
                    /\ list[i].AwayScore = gameUpdate.CurrentScore[AwayID]
                    /\ list[i].Clock = gameUpdate.DisplayClock
             /\ (/\ wf[r].notificationTypes = <<"score_change">>
                 /\ wf[r].lastScores = ZeroScores)
                   => IF gameUpdate.CurrentScore = SevenNil
                      THEN /\ Len(list) = 1
                           /\ list[1].Kind = "score_change"
                           /\ list[1].HomeScore = Itoa(7)
                           /\ list[1].AwayScore = Itoa(0)
                      ELSE gameUpdate.CurrentScore = ZeroScores => list = <<>>]_vars

\* A monitor whose polls all succeeded has observed 7-0 on its second poll or
\* later and has built the one notification with the scores "7" and "0".
C23_Witness ==
    \E r \in Started :
        /\ wf[r].notificationTypes = <<"score_change">>
        /\ wf[r].log = {} /\ wf[r].fetch = "ok"
        /\ now >= wf[r].game.StartTime + 2 * PollInterval
        /\ wf[r].fetched[1].CurrentScore = SevenNil
        /\ Len(wf[r].notificationList) = 1
        /\ wf[r].notificationList[1].Kind = "score_change"
        /\ wf[r].notificationList[1].HomeScore = Itoa(7)
        /\ wf[r].notificationList[1].AwayScore = Itoa(0)

\* C24: from its initialization on, the scores of the Game of a monitor
\* have exactly the ids of the home and of the away team as keys.
C24_ScoresKeyedByParticipants ==
    \A r \in Started :
        DOMAIN wf[r].game.CurrentScore
            = {wf[r].game.HomeTeam.ID, wf[r].game.AwayTeam.ID}

DeliveredTo(w, channel) == {d \in w.delivered : d.Channel = channel}

\* C25: the delivery of a notification list to a channel is all or nothing:
\* an attempt of the dispatch activity in which a send failed has sent none
\* of the notifications of the list to the channel, and neither has a
\* dispatch that returned an error.
C25_AllOrNothing ==
    \A r \in Started :
        /\ (wf[r].pc = "dispatch" /\ wf[r].sendTries > 0 /\ wf[r].sendIdx = 0)
              => DeliveredTo(wf[r], wf[r].channel) = {}
        /\ \A i \in 1..Len(wf[r].attempts) :
              ~wf[r].attempts[i].ok => DeliveredTo(wf[r], i) = {}

KindRank(kind) ==
    CASE kind = "score_change" -> 1 [] kind = "underdog" -> 2
      [] kind = "overtime" -> 3 [] OTHER -> 0

\* C26: a poll iteration invokes the dispatch activity not at all when its
\* notification list is empty, and otherwise once per configured channel, in
\* the configured order, each time with the list of the iteration, which
\* holds at most one notification of each kind in the order score update,
\* underdog alert, overtime alert.
C26_OneDispatchPerChannel ==
    \A r \in Started :
        LET w == wf[r]
            served == IF w.pc = "dispatch" THEN w.channel - 1
                      ELSE IF w.notificationList = <<>> THEN 0
                      ELSE Len(w.notificationChannels)
        IN /\ Channels(w.attempts) = SubSeq(w.notificationChannels, 1, served)
           /\ \A i \in 1..Len(w.attempts) :
                 w.attempts[i].NotificationList = w.notificationList
           /\ w.pc = "dispatch" => w.notificationList # <<>>
           /\ \A i, j \in 1..Len(w.notificationList) :
                 i < j => KindRank(w.notificationList[i].Kind)
                            < KindRank(w.notificationList[j].Kind)
           /\ \A i \in 1..Len(w.notificationList) :
                 KindRank(w.notificationList[i].Kind) > 0

\* An iteration has ended that built a score update, an underdog alert and
\* an overtime alert and has handed that list to each of three channels.
C26_Witness ==
    \E r \in Started :
        /\ wf[r].pc \in {"pollTimer", "done"}
        /\ [i \in 1..Len(wf[r].notificationList) |-> wf[r].notificationList[i].Kind]
              = <<"score_change", "underdog", "overtime">>
        /\ Channels(wf[r].attempts) = <<"logger", "slack", "hass">>
        /\ \A i \in 1..3 : wf[r].attempts[i].NotificationList = wf[r].notificationList

\* C27: a monitor never holds a notification of a category that is not
\* enabled, and a successful poll builds a notification of a category only
\* if the detector of the category fired on that poll: the fetched scores
\* differ from the last known ones for a score update, they differ and the
\* underdog check finds the underdog winning for an underdog alert, and the
\* fetched period is above the last notified one for an overtime alert.
C27_OnlyEnabledCategories ==
    /\ [](\A r \in Started :
            Kinds(wf[r].notificationList) \subseteq Range(wf[r].notificationTypes))
    /\ [][\A r \in RunIds : FetchReturnedOK(r) =>
            LET kinds == Kinds(wf'[r].notificationList)
                differ == ScoresDiffer(wf'[r].game.CurrentScore, wf[r].lastScores)
            IN /\ kinds \subseteq Range(wf[r].notificationTypes)
               /\ "score_change" \in kinds => differ
               /\ "underdog" \in kinds => differ /\ wf'[r].underdogWinning
               /\ "overtime" \in kinds =>
                     /\ ~Atoi(wf'[r].game.CurrentPeriod).err
                     /\ Atoi(wf'[r].game.CurrentPeriod).val
                           > wf[r].lastOvertimePeriod]_vars

\* With only underdog enabled, a poll has observed a new score in a first
\* overtime period and has built the underdog alert alone.
C27_Witness ==
    \E r \in Started :
        /\ wf[r].notificationTypes = <<"underdog">>
        /\ wf[r].fetch = "ok"
        /\ Kinds(wf[r].notificationList) = {"underdog"}
        /\ wf[r].lastScores # wf[r].initial.CurrentScore
        /\ Atoi(wf[r].game.CurrentPeriod).val > wf[r].game.NumberOfPeriods
        /\ wf[r].lastOvertimePeriod = wf[r].game.NumberOfPeriods

\* C28: after every poll whose fetch succeeded, the underdog flag of the
\* monitor tells whether the designated underdog has strictly more points
\* than its opponent.
C28_FlagTracksTruth ==
    [][\A r \in RunIds : FetchReturnedOK(r) =>
          wf'[r].underdogWinning = UnderdogAhead(wf'[r].game)]_vars

Polling(w) == w.pc \notin {"none", "start", "waitStart"}

\* C29: the overtime tracker starts at the number of regulation periods,
\* which is never changed, and never decreases; a poll builds an overtime
\* notification only if the fetched period is above both the regulation
\* periods and the tracker, so none on a poll whose period is a regulation
\* period.
C29_NoOvertimeInRegulation ==
    /\ [](\A r \in Started :
            /\ wf[r].game.NumberOfPeriods = wf[r].initial.NumberOfPeriods
            /\ Polling(wf[r]) => wf[r].lastOvertimePeriod >= wf[r].game.NumberOfPeriods)
    /\ [][\A r \in RunIds :
            /\ (Polling(wf'[r]) /\ ~Polling(wf[r])) =>
                  wf'[r].lastOvertimePeriod = wf[r].game.NumberOfPeriods
            /\ Polling(wf[r]) =>
                  wf'[r].lastOvertimePeriod >= wf[r].lastOvertimePeriod
            /\ FetchReturnedOK(r) =>
                  LET p == Atoi(wf'[r].game.CurrentPeriod) IN
                  /\ "overtime" \in Kinds(wf'[r].notificationList) =>
                        /\ ~p.err
                        /\ p.val > wf[r].game.NumberOfPeriods
                        /\ p.val > wf[r].lastOvertimePeriod
                  /\ (p.err \/ p.val <= wf[r].game.NumberOfPeriods) =>
                        /\ "overtime" \notin Kinds(wf'[r].notificationList)
                        /\ wf'[r].lastOvertimePeriod = wf[r].lastOvertimePeriod]_vars

\* With overtime enabled, a poll has observed a regulation period after an
\* overtime period was notified: no overtime notification, tracker kept.
C29_Witness ==
    \E r \in Started :
        /\ "overtime" \in Range(wf[r].notificationTypes)
        /\ wf[r].fetch = "ok"
        /\ Atoi(wf[r].game.CurrentPeriod).val <= wf[r].game.NumberOfPeriods
        /\ wf[r].lastOvertimePeriod > wf[r].game.NumberOfPeriods
        /\ "overtime" \notin Kinds(wf[r].notificationList)

NoUnderdog(game) == ~game.HomeTeam.Underdog /\ ~game.AwayTeam.Underdog

\* C30: the monitor of a game in which neither team is marked as underdog
\* never builds an underdog notification, and its underdog flag stays false,
\* whatever scores are observed.
C30_NoUnderdogNeverFires ==
    \A r \in Started : NoUnderdog(wf[r].game) =>
        /\ ~wf[r].underdogWinning
        /\ "underdog" \notin Kinds(wf[r].notificationList)
        /\ \A i \in 1..Len(wf[r].attempts) :
              "underdog" \notin Kinds(wf[r].attempts[i].NotificationList)

\* With underdog enabled, the monitor of a game without underdog has observed
\* a team taking the lead: a score update was built and no underdog alert.
C30_Witness ==
    \E r \in Started :
        /\ NoUnderdog(wf[r].game)
        /\ "underdog" \in Range(wf[r].notificationTypes)
        /\ wf[r].fetch = "ok"
        /\ Atoi(Lookup(wf[r].game.CurrentScore, HomeID)).val
              > Atoi(Lookup(wf[r].game.CurrentScore, AwayID)).val
        /\ Kinds(wf[r].notificationList) = {"score_change"}
        /\ ~wf[r].underdogWinning

KnownChannels == {"logger", "slack", "hass"}

\* The dispatch of run r to a channel the activity does not know returned in
\* this step.
UnknownChannelDispatched(r) ==
    /\ wf[r].pc = "dispatch"
    /\ wf[r].notificationChannels[wf[r].channel] \notin KnownChannels
    /\ Len(wf'[r].attempts) = Len(wf[r].attempts) + 1

----------------------------------------------------------------------------
(* Claims about the detectors, the labels, the horizon and the requests *)

\* C31: with underdog enabled, once the underdog has led and has then been
\* observed tied or behind, the poll on which it is observed leading again
\* builds one underdog notification.
C31_RearmsOnLeadLoss ==
    [][\A r \in RunIds :
          (/\ FetchReturnedOK(r)
           /\ Contains(wf[r].notificationTypes, "underdog")
           /\ wf[r].lead = "lost" /\ UnderdogAhead(wf'[r].game))
             => Count(wf'[r].notificationList, "underdog") = 1]_vars

\* C32: on a poll that runs the underdog check (underdog enabled, an underdog
\* designated, the scores changed), the underdog is judged to be leading,
\* and its notification is built, exactly when its score is numerically
\* strictly greater than the score of its opponent, whatever the numbers of
\* digits of the two scores.
C32_LeadJudgedNumerically ==
    [][\A r \in RunIds :
          (/\ FetchReturnedOK(r)
           /\ Contains(wf[r].notificationTypes, "underdog")
           /\ ~NoUnderdog(wf[r].game)
           /\ ScoresDiffer(wf'[r].game.CurrentScore, wf[r].lastScores))
             => /\ wf'[r].underdogWinning = UnderdogAhead(wf'[r].game)
                /\ Count(wf'[r].notificationList, "underdog")
                      = IF UnderdogAhead(wf'[r].game) THEN 1 ELSE 0]_vars

\* A team of cur has another score than in prev, or no score in prev.
Changed(cur, prev) ==
    \/ DOMAIN cur \ DOMAIN prev # {}
    \/ {t \in DOMAIN cur \cap DOMAIN prev : cur[t] # prev[t]} # {}

\* C33: under the default category, a successful poll builds a score update
\* and advances the last known scores exactly when a team id of the fetched
\* scores has another score than in the last known scores or is missing from
\* them; the last known scores are those of the initial Game until a
\* successful poll, so the first one fires only on scores that differ from
\* the initial ones.
C33_ScoreChangeDetector ==
    [][\A r \in RunIds : FetchReturnedOK(r) =>
          LET cur == wf'[r].game.CurrentScore
              fired == Count(wf'[r].notificationList, "score_change") = 1
          IN /\ fired <=> Changed(cur, wf[r].lastScores)
             /\ ~fired => /\ wf'[r].notificationList = <<>>
                          /\ wf'[r].lastScores = wf[r].lastScores
             /\ fired => \A t \in DOMAIN cur : wf'[r].lastScores[t] = cur[t]
             /\ wf[r].fetched = <<>> =>
                   /\ wf[r].lastScores = wf[r].initial.CurrentScore
                   /\ fired => cur # wf[r].initial.CurrentScore]_vars

\* The first poll of a monitor has fetched the initial scores of its two
\* teams and the score of a third one, and has built a score update.
C33_Witness ==
    \E r \in Started :
        /\ wf[r].fetch = "ok" /\ wf[r].log = {} /\ now = PollInterval
        /\ DOMAIN wf[r].game.CurrentScore = {HomeID, AwayID, OtherID}
        /\ \A t \in {HomeID, AwayID} :
              wf[r].game.CurrentScore[t] = wf[r].initial.CurrentScore[t]
        /\ Count(wf[r].notificationList, "score_change") = 1
        /\ wf[r].lastScores = wf[r].game.CurrentScore

\* The overtime notification that run r built on the poll that returned in
\* this step, and the number of its overtime.
OvertimeBuilt(r) ==
    /\ FetchReturnedOK(r)
    /\ Count(wf'[r].notificationList, "overtime") = 1
OvertimeNotificationOf(w) ==
    w.notificationList[CHOOSE i \in 1..Len(w.notificationList) :
                          w.notificationList[i].Kind = "overtime"]
OvertimeNumberOf(w) == Atoi(w.game.CurrentPeriod).val - w.game.NumberOfPeriods

\* C34, as claimed: the title and the message of an overtime notification
\* carry the label of n = currentPeriod - regulationPeriods: "OT" for 1,
\* "Double OT" for 2, "Triple OT" for 3, and the Nth-OT form from 4 on.
C34_OvertimeLabel ==
    [][\A r \in RunIds : OvertimeBuilt(r) =>
          LET n == OvertimeNumberOf(wf'[r])
              label == CASE n = 1 -> "OT" [] n = 2 -> "Double OT"
                         [] n = 3 -> "Triple OT"
                         [] OTHER -> ToString(n) \o "th OT"
          IN /\ n >= 1
             /\ OvertimeNotificationOf(wf'[r]).Title = label \o "!"
             /\ OvertimeNotificationOf(wf'[r]).Period = label]_vars

\* C34, amended: the label is "OT" for n = 1, "Double OT" for n = 2,
\* "TRIPLE OT" in capitals for n = 3, and "<n>th OT" for every n >= 4; the
\* monitor builds the notification only for n >= 1, and its title (the label
\* and an exclamation mark) and its message use that label.
C34_OvertimeLabelAsCoded ==
    [][\A r \in RunIds : OvertimeBuilt(r) =>
          LET n == OvertimeNumberOf(wf'[r])
              label == CASE n = 1 -> "OT" [] n = 2 -> "Double OT"
                         [] n = 3 -> "TRIPLE OT"
                         [] OTHER -> ToString(n) \o "th OT"
          IN /\ n >= 1
             /\ OvertimeNotificationOf(wf'[r]).Title = label \o "!"
             /\ OvertimeNotificationOf(wf'[r]).Period = label]_vars

\* A monitor has built the notification of a first overtime and then, on a
\* later poll, that of a third one or of a fourth one.
C34_Witness ==
    \E r \in Started :
        /\ wf[r].fetch = "ok"
        /\ Count(wf[r].notificationList, "overtime") = 1
        /\ wf[r].seenOvertime = {wf[r].game.NumberOfPeriods + 1,
                                 wf[r].lastOvertimePeriod}
        /\ \/ /\ OvertimeNumberOf(wf[r]) = 3
              /\ OvertimeNotificationOf(wf[r]).Title = "TRIPLE OT!"
           \/ /\ OvertimeNumberOf(wf[r]) = 4
              /\ OvertimeNotificationOf(wf[r]).Title = "4th OT!"

\* The text of period n of a game of a sport.
PeriodText(sport, n) ==
    CASE sport = "baseball" -> "Inning " \o ToString(n)
      [] sport = "soccer" -> "Half " \o ToString(n)
      [] sport = "hockey" /\ n \in 1..3 ->
            <<"1st Period", "2nd Period", "3rd Period">>[n]
      [] OTHER -> "Q" \o ToString(n)

\* C35: the period text of a score update and of an underdog alert built on
\* a poll is the text of the period fetched on that poll, in the form of the
\* sport of the game.
C35_PeriodTextIsCurrentPeriod ==
    [][\A r \in RunIds : FetchReturnedOK(r) =>
          \A i \in 1..Len(wf'[r].notificationList) :
              wf'[r].notificationList[i].Kind \in {"score_change", "underdog"} =>
                  wf'[r].notificationList[i].Period
                      = PeriodText(wf'[r].game.Sport,
                                   Atoi(wf'[r].game.CurrentPeriod).val)]_vars

\* C36: the last known scores are advanced to the fetched scores in the step
\* that detects the change, before any dispatch, and no other step of the
\* polling loop changes them, whatever the dispatch returns; so a poll that
\* fetches the scores of the last successful poll builds no score update and
\* no underdog alert, also when the dispatch of that change failed on every
\* channel.
C36_LostNotRedelivered ==
    [][\A r \in RunIds :
          /\ (FetchReturnedOK(r)
               /\ ScoresDiffer(wf'[r].game.CurrentScore, wf[r].lastScores))
                 => wf'[r].lastScores = wf'[r].game.CurrentScore
          /\ (Polling(wf[r]) /\ ~FetchReturnedOK(r))
                 => wf'[r].lastScores = wf[r].lastScores
          /\ (FetchReturnedOK(r) /\ wf[r].fetched # <<>>
               /\ wf'[r].game.CurrentScore = wf[r].fetched[1].CurrentScore)
                 => Kinds(wf'[r].notificationList) \subseteq {"overtime"}]_vars

\* With only score_change enabled and one channel, the first poll detected a
\* change whose dispatch failed, and the second poll has fetched the same
\* scores and has built nothing.
C36_Witness ==
    \E r \in Started :
        /\ wf[r].notificationTypes = <<"score_change">>
        /\ Len(wf[r].notificationChannels) = 1
        /\ "Failed to send notification" \in wf[r].log
        /\ "Failed to fetch game score" \notin wf[r].log
        /\ now = wf[r].game.StartTime + 2 * PollInterval
        /\ wf[r].fetch = "ok" /\ wf[r].notificationList = <<>>
        /\ wf[r].attempts = <<>>
        /\ wf[r].lastScores = wf[r].game.CurrentScore
        /\ wf[r].lastScores # wf[r].initial.CurrentScore

\* From the return of a successful fetch to the next poll, the last known
\* scores hold every team id of the scores of the Game, with the same score.
LastScoresAgree ==
    \A r \in Started : wf[r].fetch = "ok" =>
        \A t \in DOMAIN wf[r].game.CurrentScore :
            /\ t \in DOMAIN wf[r].lastScores
            /\ wf[r].lastScores[t] = wf[r].game.CurrentScore[t]

\* The final-score summary of a monitor that has ended carries the last
\* known scores of the home and of the away team.
SummaryIsLastScores ==
    \A r \in Started : wf[r].status = "completed" =>
        /\ wf[r].result[3] = Lookup(wf[r].lastScores, wf[r].game.HomeTeam.ID)
        /\ wf[r].result[5] = Lookup(wf[r].lastScores, wf[r].game.AwayTeam.ID)

\* C37: at the end of every poll iteration whose fetch succeeded the last
\* known scores agree with the scores of the Game on every team id of the
\* latter, and the final-score summary gives the last known scores of both
\* teams.
C37_SummaryFromLastScores == LastScoresAgree /\ SummaryIsLastScores

HorizonEnd(w) == w.game.StartTime + MonitoringHorizon

SpawnFailed == "Failed to start game workflow" \in sched'.log \ sched.log

\* C39: the run requests the spawns one after the other, each for the next
\* game of the fetched list that is scheduled and has not started; a spawn
\* that fails changes no execution, and the run then returns 0 with the
\* error while the monitors of the games it spawned before are running.
C39_NoRollbackOnSpawnFailure ==
    /\ [](\A i, j \in DOMAIN sched.spawned :
            i < j => sched.spawned[i] < sched.spawned[j])
    /\ []("Failed to start game workflow" \in sched.log =>
            /\ sched.pc = "done" /\ sched.result = 0 /\ sched.err # ""
            /\ \A k \in 1..(Len(sched.spawned) - 1) :
                  ActiveFor(sched.games[sched.spawned[k]].ID) # {})
    /\ [][SpawnFailed => wf' = wf]_vars
    /\ [][(sched'.pc = "spawn" /\ sched' # sched) =>
            /\ sched'.spawned = Append(IF sched.pc = "spawn" THEN sched.spawned
                                       ELSE <<>>, sched'.idx)
            /\ Qualifies(sched'.games[sched'.idx])
            /\ \A i \in 1..(sched'.idx - 1) :
                  (sched.pc = "spawn" => i > sched.idx)
                     => ~Qualifies(sched'.games[i])]_vars

\* The spawn of the second qualifying game of a list has failed: the run
\* has returned 0 with the error, and the monitor of the first one runs.
C39_Witness ==
    /\ "Failed to start game workflow" \in sched.log
    /\ sched.pc = "done" /\ sched.result = 0 /\ sched.err # ""
    /\ Len(sched.spawned) = 2
    /\ sched.games[sched.spawned[1]].ID # sched.games[sched.spawned[2]].ID
    /\ ActiveFor(sched.games[sched.spawned[1]].ID) # {}
    /\ ActiveFor(sched.games[sched.spawned[2]].ID) = {}

\* C40: the request that StartTracking last answered with "Tracking started
\* successfully" is the request of the run of CollectGamesWorkflow that was
\* started for it: no accepted request is absorbed into the run of another
\* request or dropped.
C40_EveryRequestGetsItsRun ==
    sched.accepted # <<>> => sched.request = sched.accepted

====
